---------------------------- MODULE Spec2Model ----------------------------
(***************************************************************************)
(* A model of the synth repository's real-time core:                       *)
(*   - the parameter queue of src/param_queue.c, a single-producer /       *)
(*     single-consumer ring buffer (PortAudio's PaUtilRingBuffer),         *)
(*   - the voice pool of src/synth_engine.c,                               *)
(*   - the MIDI byte-stream decoder of src/midi_input.c,                   *)
(*   - the audio callback of src/synth_complete.c with the threads that    *)
(*     feed it.                                                            *)
(* Each part has its own specifications (QueueSpec and DropSpec;           *)
(* EngineSpec, PolySpec, ParamSpec, ReleaseSpec, ModeSpec, StealSpec and   *)
(* EnvSpec; DecoderSpec and StreamSpec; AudioSpec and AppSpec) over the    *)
(* module's variables; a part's specification leaves the other parts'      *)
(* variables parked.                                                       *)
(***************************************************************************)
EXTENDS Integers, Sequences, FiniteSets, TLC

(***************************************************************************)
(* Bounds of the model.                                                    *)
(***************************************************************************)
\* log2 of the ring's capacity: PARAM_QUEUE_SIZE is 256 = 2^8 in the source
\* (src/param_queue.h:53); the model keeps it a power of two, as
\* PaUtil_InitializeRingBuffer requires, and makes it small.
QueueBits == 1
\* the number of enqueue calls the producer makes
MaxMsgs == 5

Pow2(n) == IF n = 0 THEN 1 ELSE IF n = 1 THEN 2 ELSE IF n = 2 THEN 4 ELSE IF n = 3 THEN 8 ELSE 16

PARAM_QUEUE_SIZE == Pow2(QueueBits)

VARIABLES
    \* ---- the parameter queue (src/param_queue.c, g_param_queue) ----
    rbuf,        \* the PaUtilRingBuffer: bufferSize, writeIndex, readIndex, bigMask, smallMask
    buffer,      \* g_param_buffer: slot -> <<id word, value word>>
    ppc,         \* producer: "idle" | "regions" | "copy1" | "copy2" | "advance"
    pmsg,        \* producer: the message being enqueued (its number), 0 when none
    pn,          \* producer: elements PaUtil_GetRingBufferWriteRegions granted (0 or 1)
    pheld,       \* producer: messages stored when the write regions were taken
    nextMsg,     \* the number of the next message the producer will make
    accepted,    \* messages whose enqueue returned true, in call order
    rejected,    \* messages whose enqueue returned false, in call order
    lastEnq,     \* the last completed enqueue: [ok, held, msg]
    cpc,         \* consumer: "idle" | "regions" | "copy1" | "copy2" | "advance"
    cmode,       \* consumer: "dequeue" | "drain" (who called param_queue_dequeue)
    cn,          \* consumer: elements PaUtil_GetRingBufferReadRegions granted (0 or 1)
    cout,        \* consumer: the ParamMsg being copied out, <<id word, value word>>
    delivered,   \* payloads handed to the consumer, in order
    lastDeq,     \* the last completed param_queue_dequeue: [ok, avail, mode]
    drain,       \* the last drain call: [start, count, clean, done]
    \* ---- the synthesis engine (src/synth_engine.c, SynthEngine) ----
    synth,       \* the engine's own fields: sample_rate, sample_counter, mono_mode, ...
    voices,      \* synth->voices: index -> Voice
    lastOp,      \* the engine operation that ran last: [name, note, full, fresh]
    opCount,     \* the number of engine operations run so far
    \* ---- the MIDI decoder (src/midi_input.c, midi_parse_packet) ----
    packet,        \* bytes, length: the bytes of the feed being parsed
    pos,           \* the loop index i of midi_parse_packet (0-based)
    running_status,\* midi_parse_packet's running_status
    mpc,           \* "call" | "loop" | "done"
    events,        \* the MidiEvents handed to midi_queue_push_event, in order
    eventAt,       \* for each of them, the index i at which it was made
    \* ---- the packet list of midi_read_proc (src/midi_input.c) ----
    later,         \* the packets of the list that are still to be parsed
    carry,         \* what the packet before left: [status, data1, nevents]
    \* ---- the audio callback (src/synth_complete.c, audio_callback) ----
    params,        \* the ParamMsgs enqueued so far, in order
    applied,       \* how many of them param_queue_drain has handed to its handler
    handled,       \* how many of the events midi_queue_drain has handed to its handler
    apc,           \* the callback: "idle" | "params" | "events" | "lock" | "render"
    frames,        \* the frames of the block still to render
    mutex,         \* g_app.audio_mutex: "free" | "ui" | "audio"
    before,        \* what was enqueued when the callback began: [params, events]
    \* ---- the threads of the application (src/synth_complete.c) ----
    writers,       \* for each queue, the threads that have enqueued into it
    mutators,      \* the threads that have called a function that changes the engine
    \* ---- the dropped-message diagnostics (src/param_queue.c, src/midi_input.c) ----
    rings,         \* g_param_queue and g_midi_queue: queue -> PaUtilRingBuffer
    warned,        \* midi_queue_push_event's static int warned
    since          \* for each queue, since it was last drained: [failed, lines]

qvars == <<rbuf, buffer, ppc, pmsg, pn, pheld, nextMsg, accepted, rejected, lastEnq,
           cpc, cmode, cn, cout, delivered, lastDeq, drain>>

evars == <<synth, voices, lastOp, opCount>>

dvars == <<packet, pos, running_status, mpc, events, eventAt>>

svars == <<later, carry>>

avars == <<params, applied, handled, apc, frames, mutex, before, writers, mutators>>

wvars == <<rings, warned, since>>

vars == <<qvars, evars, dvars, svars, avars, wvars>>

\* a part that a specification does not run stays parked
QParked ==
    /\ rbuf = 0 /\ buffer = 0 /\ ppc = 0 /\ pmsg = 0 /\ pn = 0 /\ pheld = 0 /\ nextMsg = 0
    /\ accepted = 0 /\ rejected = 0 /\ lastEnq = 0 /\ cpc = 0 /\ cmode = 0 /\ cn = 0
    /\ cout = 0 /\ delivered = 0 /\ lastDeq = 0 /\ drain = 0

EParked == synth = 0 /\ voices = 0 /\ lastOp = 0 /\ opCount = 0

DParked ==
    /\ packet = 0 /\ pos = 0 /\ running_status = 0 /\ mpc = 0 /\ events = 0 /\ eventAt = 0

SParked == later = 0 /\ carry = 0

AParked ==
    /\ params = 0 /\ applied = 0 /\ handled = 0 /\ apc = 0 /\ frames = 0 /\ mutex = 0
    /\ before = 0 /\ writers = 0 /\ mutators = 0

WParked == rings = 0 /\ warned = 0 /\ since = 0

-----------------------------------------------------------------------------
(***************************************************************************)
(* PaUtilRingBuffer (pa_ringbuffer.c is not among the sources; modelled    *)
(* from the specification's description of the ring: power-of-two          *)
(* capacity, independent write and read cursors, payload written before    *)
(* the write cursor is advanced).  The cursors run modulo 2 * bufferSize   *)
(* (bigMask) and address slots modulo bufferSize (smallMask).              *)
(***************************************************************************)
PaUtil_InitializeRingBuffer(size) ==
    [bufferSize |-> size, writeIndex |-> 0, readIndex |-> 0,
     bigMask |-> 2 * size - 1, smallMask |-> size - 1]

\* x & mask for a mask of the form 2^k - 1
AndMask(x, mask) == x % (mask + 1)

PaUtil_GetRingBufferReadAvailable(r) ==
    AndMask(r.writeIndex - r.readIndex, r.bigMask)

PaUtil_GetRingBufferWriteAvailable(r) ==
    r.bufferSize - PaUtil_GetRingBufferReadAvailable(r)

Min(a, b) == IF a < b THEN a ELSE b

PaUtil_AdvanceRingBufferWriteIndex(r, n) ==
    [r EXCEPT !.writeIndex = AndMask(r.writeIndex + n, r.bigMask)]

PaUtil_AdvanceRingBufferReadIndex(r, n) ==
    [r EXCEPT !.readIndex = AndMask(r.readIndex + n, r.bigMask)]

\* a message's payload: two words, both carrying the message's number, so a
\* torn or stale read is visible as a payload no message has
Payload(m) == <<m, m>>
NoPayload == <<0, 0>>
Slots == 0 .. (PARAM_QUEUE_SIZE - 1)

-----------------------------------------------------------------------------
(***************************************************************************)
(* param_queue_init                                                        *)
(***************************************************************************)
\* the mutant: the ring is told twice the element count g_param_buffer has
param_queue_init_size_doubled == 2 * PARAM_QUEUE_SIZE

\* the element count param_queue_init passes to PaUtil_InitializeRingBuffer
param_queue_init_size == PARAM_QUEUE_SIZE

QInit ==
    /\ rbuf = PaUtil_InitializeRingBuffer(param_queue_init_size)
    /\ buffer = [s \in Slots |-> NoPayload]
    /\ ppc = "idle" /\ pmsg = 0 /\ pn = 0 /\ pheld = 0
    /\ nextMsg = 1
    /\ accepted = <<>> /\ rejected = <<>>
    /\ lastEnq = [ok |-> FALSE, held |-> 0, msg |-> 0]
    /\ cpc = "idle" /\ cmode = "dequeue" /\ cn = 0 /\ cout = NoPayload
    /\ delivered = <<>>
    /\ lastDeq = [ok |-> FALSE, avail |-> 0, mode |-> "none"]
    /\ drain = [start |-> 0, count |-> 0, clean |-> FALSE, done |-> FALSE]

(***************************************************************************)
(* param_queue_enqueue, the producer.  PaUtil_WriteRingBuffer is three     *)
(* steps against the consumer: take the write regions (reads readIndex),   *)
(* copy the payload (one word at a time), advance writeIndex.              *)
(***************************************************************************)
prodVars == <<ppc, pmsg, pn, pheld, nextMsg, accepted, rejected, lastEnq>>
consVars == <<cpc, cmode, cn, cout, delivered, lastDeq>>

\* param_queue_enqueue(NULL): returns false, touches nothing
EnqueueNull ==
    /\ ppc = "idle"
    /\ lastEnq' = [ok |-> FALSE, held |-> PaUtil_GetRingBufferReadAvailable(rbuf), msg |-> 0]
    /\ UNCHANGED <<rbuf, buffer, ppc, pmsg, pn, pheld, nextMsg, accepted, rejected,
                   consVars, drain>>

EnqueueCall ==
    /\ ppc = "idle"
    /\ nextMsg <= MaxMsgs
    /\ pmsg' = nextMsg
    /\ nextMsg' = nextMsg + 1
    /\ ppc' = "regions"
    \* a drain that overlaps an enqueue is not a drain "with no concurrent enqueue"
    /\ drain' = [drain EXCEPT !.clean = FALSE]
    /\ UNCHANGED <<rbuf, buffer, pn, pheld, accepted, rejected, lastEnq, consVars>>

EnqueueWriteRegions ==
    /\ ppc = "regions"
    /\ pheld' = PaUtil_GetRingBufferReadAvailable(rbuf)
    /\ pn' = Min(1, PaUtil_GetRingBufferWriteAvailable(rbuf))
    /\ ppc' = IF pn' = 0 THEN "advance" ELSE "copy1"
    /\ UNCHANGED <<rbuf, buffer, pmsg, nextMsg, accepted, rejected, lastEnq, consVars, drain>>

EnqueueCopy1 ==
    /\ ppc = "copy1"
    /\ LET s == AndMask(rbuf.writeIndex, rbuf.smallMask)
       IN buffer' = [buffer EXCEPT ![s] = <<Payload(pmsg)[1], @[2]>>]
    /\ ppc' = "copy2"
    /\ UNCHANGED <<rbuf, pmsg, pn, pheld, nextMsg, accepted, rejected, lastEnq, consVars, drain>>

EnqueueCopy2 ==
    /\ ppc = "copy2"
    /\ LET s == AndMask(rbuf.writeIndex, rbuf.smallMask)
       IN buffer' = [buffer EXCEPT ![s] = <<@[1], Payload(pmsg)[2]>>]
    /\ ppc' = "advance"
    /\ UNCHANGED <<rbuf, pmsg, pn, pheld, nextMsg, accepted, rejected, lastEnq, consVars, drain>>

\* the mutant: the written == 0 test is lost
param_queue_enqueue_result_unchecked(written) == TRUE

\* param_queue_enqueue's result from PaUtil_WriteRingBuffer's
param_queue_enqueue_result(written) == written # 0

EnqueueReturn ==
    /\ ppc = "advance"
    /\ rbuf' = PaUtil_AdvanceRingBufferWriteIndex(rbuf, pn)
    /\ LET ok == param_queue_enqueue_result(pn)
       IN /\ accepted' = IF ok THEN Append(accepted, pmsg) ELSE accepted
          /\ rejected' = IF ok THEN rejected ELSE Append(rejected, pmsg)
          /\ lastEnq' = [ok |-> ok, held |-> pheld, msg |-> pmsg]
    /\ ppc' = "idle" /\ pmsg' = 0 /\ pn' = 0 /\ pheld' = 0
    /\ UNCHANGED <<buffer, nextMsg, consVars, drain>>

(***************************************************************************)
(* param_queue_dequeue and param_queue_drain, the consumer.                *)
(* PaUtil_ReadRingBuffer is three steps against the producer: take the     *)
(* read regions (reads writeIndex), copy the payload out, advance          *)
(* readIndex.                                                              *)
(***************************************************************************)
DequeueCall ==
    /\ cpc = "idle"
    /\ cmode' = "dequeue"
    /\ cpc' = "regions"
    /\ UNCHANGED <<rbuf, buffer, prodVars, cn, cout, delivered, lastDeq, drain>>

\* param_queue_drain(handler, userdata) with a handler: the loop's first
\* param_queue_dequeue
DrainCall ==
    /\ cpc = "idle"
    /\ cmode' = "drain"
    /\ cpc' = "regions"
    /\ drain' = [start |-> PaUtil_GetRingBufferReadAvailable(rbuf), count |-> 0,
                 clean |-> (ppc = "idle"), done |-> FALSE]
    /\ lastDeq' = [ok |-> FALSE, avail |-> 0, mode |-> "none"]
    /\ UNCHANGED <<rbuf, buffer, prodVars, cn, cout, delivered>>

DequeueReadRegions ==
    /\ cpc = "regions"
    /\ cn' = Min(1, PaUtil_GetRingBufferReadAvailable(rbuf))
    /\ cpc' = IF cn' = 0 THEN "advance" ELSE "copy1"
    /\ UNCHANGED <<rbuf, buffer, prodVars, cmode, cout, delivered, lastDeq, drain>>

DequeueCopy1 ==
    /\ cpc = "copy1"
    /\ LET s == AndMask(rbuf.readIndex, rbuf.smallMask)
       IN cout' = <<buffer[s][1], cout[2]>>
    /\ cpc' = "copy2"
    /\ UNCHANGED <<rbuf, buffer, prodVars, cmode, cn, delivered, lastDeq, drain>>

DequeueCopy2 ==
    /\ cpc = "copy2"
    /\ LET s == AndMask(rbuf.readIndex, rbuf.smallMask)
       IN cout' = <<cout[1], buffer[s][2]>>
    /\ cpc' = "advance"
    /\ UNCHANGED <<rbuf, buffer, prodVars, cmode, cn, delivered, lastDeq, drain>>

\* the mutant: the == 1 test is lost, the out parameter is always handed on
param_queue_dequeue_result_unchecked(nread) == TRUE

\* param_queue_dequeue's result from PaUtil_ReadRingBuffer's
param_queue_dequeue_result(nread) == nread = 1

\* the mutant: the drain loop stops after its first message
param_queue_drain_continue_once(ok) == FALSE

\* param_queue_drain's loop condition: go on while param_queue_dequeue succeeds
param_queue_drain_continue(ok) == ok

DequeueReturn ==
    /\ cpc = "advance"
    /\ rbuf' = PaUtil_AdvanceRingBufferReadIndex(rbuf, cn)
    /\ LET ok == param_queue_dequeue_result(cn)
       IN /\ delivered' = IF ok THEN Append(delivered, cout) ELSE delivered
          /\ lastDeq' = [ok |-> ok, avail |-> cn, mode |-> cmode]
          /\ IF cmode = "drain"
             THEN /\ drain' = [drain EXCEPT !.count = IF ok THEN @ + 1 ELSE @,
                                            !.done = ~param_queue_drain_continue(ok)]
                  /\ cpc' = IF param_queue_drain_continue(ok) THEN "regions" ELSE "idle"
             ELSE /\ drain' = drain
                  /\ cpc' = "idle"
    /\ cn' = 0
    /\ UNCHANGED <<buffer, prodVars, cmode, cout>>

\* the queue runs; the engine and the decoder stay parked
QueueInit == QInit /\ EParked /\ DParked /\ SParked /\ AParked /\ WParked

QIdle == UNCHANGED <<evars, dvars, svars, avars, wvars>>

QNext ==
    \/ EnqueueNull /\ QIdle
    \/ EnqueueCall /\ QIdle
    \/ EnqueueWriteRegions /\ QIdle
    \/ EnqueueCopy1 /\ QIdle
    \/ EnqueueCopy2 /\ QIdle
    \/ EnqueueReturn /\ QIdle
    \/ DequeueCall /\ QIdle
    \/ DrainCall /\ QIdle
    \/ DequeueReadRegions /\ QIdle
    \/ DequeueCopy1 /\ QIdle
    \/ DequeueCopy2 /\ QIdle
    \/ DequeueReturn /\ QIdle

QueueSpec == QueueInit /\ [][QNext]_vars

-----------------------------------------------------------------------------
(***************************************************************************)
(* The queue's claims.                                                     *)
(***************************************************************************)
IsPrefix(s, t) == Len(s) <= Len(t) /\ \A i \in 1 .. Len(s) : s[i] = t[i]

Payloads(ms) == [i \in 1 .. Len(ms) |-> Payload(ms[i])]

\* the stored messages, oldest first, as the cursors delimit them
Stored ==
    [i \in 1 .. PaUtil_GetRingBufferReadAvailable(rbuf) |->
        buffer[AndMask(rbuf.readIndex + i - 1, rbuf.smallMask)]]

\* C1: under any interleaving of one producer and one consumer, the messages
\* handed to the consumer are a prefix of the messages whose enqueue returned
\* true: the same messages in the same order.
C1_DeliveredIsPrefixOfAccepted == IsPrefix(delivered, Payloads(accepted))

\* C1's case: the ring has wrapped and both sides are in the middle of a call
C1_Witness ==
    /\ Len(delivered) > PARAM_QUEUE_SIZE
    /\ ppc = "copy2"
    /\ cpc = "copy1"

\* C2: every message whose enqueue returned true is delivered exactly once and
\* whole: delivered and stored messages together are exactly the accepted
\* ones (none lost), no payload is delivered twice, every delivered payload
\* is an accepted message's whole payload, and the slot the consumer copies
\* from holds a completely written message.
C2_ExactlyOnceAndWhole ==
    /\ Len(accepted) = Len(delivered) + PaUtil_GetRingBufferReadAvailable(rbuf)
    /\ \A i, j \in 1 .. Len(delivered) : delivered[i] = delivered[j] => i = j
    /\ \A i \in 1 .. Len(delivered) : \E k \in 1 .. Len(accepted) : delivered[i] = Payload(accepted[k])
    /\ cpc \in {"copy1", "copy2"} =>
          /\ Len(delivered) < Len(accepted)
          /\ buffer[AndMask(rbuf.readIndex, rbuf.smallMask)] = Payload(accepted[Len(delivered) + 1])
    /\ Payloads(accepted) = delivered \o Stored

\* C2's case: the consumer copies a slot out while the producer is half way
\* through writing another, after the ring has wrapped
C2_Witness ==
    /\ cpc = "copy2"
    /\ ppc = "copy2"
    /\ Len(accepted) > PARAM_QUEUE_SIZE
    /\ buffer[AndMask(rbuf.writeIndex, rbuf.smallMask)][1] # buffer[AndMask(rbuf.writeIndex, rbuf.smallMask)][2]

NoConsumerYet == cpc = "idle" /\ lastDeq.mode = "none" /\ delivered = <<>> /\ ~drain.done

\* C3: an enqueue that finds the queue holding capacity messages returns
\* false (and only such an enqueue does), a rejected message is never stored
\* nor delivered, capacity+1 enqueues on an empty queue fail exactly once, on
\* the last call, and a following full drain yields exactly the first
\* capacity messages.
C3_FullQueueRejectsNewest ==
    /\ lastEnq.msg # 0 => (lastEnq.ok <=> lastEnq.held < PARAM_QUEUE_SIZE)
    /\ \A i \in 1 .. Len(rejected) :
          /\ \A j \in 1 .. Len(delivered) : delivered[j] # Payload(rejected[i])
          /\ \A j \in 1 .. Len(Stored) : Stored[j] # Payload(rejected[i])
    /\ (ppc = "idle" /\ lastEnq.msg # 0 /\ ~lastEnq.ok) =>
          Stored = [i \in 1 .. Len(Stored) |-> Payload(accepted[Len(delivered) + i])]
    /\ (NoConsumerYet /\ ppc = "idle") =>
          /\ accepted = [i \in 1 .. Min(nextMsg - 1, PARAM_QUEUE_SIZE) |-> i]
          /\ rejected = [i \in 1 .. (nextMsg - 1 - Len(accepted)) |-> PARAM_QUEUE_SIZE + i]
          /\ Stored = Payloads(accepted)
    /\ (rejected = <<PARAM_QUEUE_SIZE + 1>> /\ nextMsg = PARAM_QUEUE_SIZE + 2
           /\ drain.done /\ drain.clean) =>
          delivered = [i \in 1 .. PARAM_QUEUE_SIZE |-> Payload(i)]

\* C3's case: capacity+1 enqueues, the last one rejected, then a full drain
C3_Witness ==
    /\ rejected = <<PARAM_QUEUE_SIZE + 1>>
    /\ nextMsg = PARAM_QUEUE_SIZE + 2
    /\ lastEnq = [ok |-> FALSE, held |-> PARAM_QUEUE_SIZE, msg |-> PARAM_QUEUE_SIZE + 1]
    /\ drain.done /\ drain.clean /\ drain.count = PARAM_QUEUE_SIZE
    /\ Len(delivered) = PARAM_QUEUE_SIZE

\* C4: the number of stored messages (write cursor minus read cursor) is
\* between 0 and the capacity, after any enqueue, dequeue or drain, failed
\* ones included.
C4_CountWithinCapacity ==
    /\ PaUtil_GetRingBufferReadAvailable(rbuf) >= 0
    /\ PaUtil_GetRingBufferReadAvailable(rbuf) <= PARAM_QUEUE_SIZE
    /\ PaUtil_GetRingBufferWriteAvailable(rbuf) >= 0

\* C4's case: a full queue whose write cursor has wrapped past the read
\* cursor, right after a failed enqueue
C4_Witness ==
    /\ PaUtil_GetRingBufferReadAvailable(rbuf) = PARAM_QUEUE_SIZE
    /\ rbuf.writeIndex < rbuf.readIndex
    /\ lastEnq.msg # 0 /\ ~lastEnq.ok
    /\ ppc = "idle"

\* C5: a dequeue that finds the queue empty returns false; a drain that ran
\* with no concurrent enqueue called the handler once per message stored when
\* it began and left the queue empty, and the next dequeue returns false.
C5_DrainEmptiesQueue ==
    /\ lastDeq.mode # "none" => (lastDeq.ok <=> lastDeq.avail = 1)
    /\ (drain.done /\ drain.clean) =>
          /\ drain.count = drain.start
          /\ PaUtil_GetRingBufferReadAvailable(rbuf) = 0
          /\ (lastDeq.mode = "dequeue" => ~lastDeq.ok)

\* C5's case: a later fill/drain cycle, the ring wrapped, the drain handed
\* over a full ring and the dequeue after it found nothing
C5_Witness ==
    /\ drain.done /\ drain.clean
    /\ drain.count = PARAM_QUEUE_SIZE
    /\ Len(delivered) > PARAM_QUEUE_SIZE
    /\ lastDeq.mode = "dequeue" /\ ~lastDeq.ok
    /\ cpc = "idle"

-----------------------------------------------------------------------------
(***************************************************************************)
(* The synthesis engine (src/synth_engine.c).                              *)
(*                                                                         *)
(* Floats are fixed-point integers: a level of 1.0 is LevelOne units,      *)
(* times are milliseconds, and a division is an integer division.  The     *)
(* oscillators, the filter and the mixer do not act on the voice and       *)
(* envelope state machines and are left out.                               *)
(***************************************************************************)
\* the size of the voice pool: 8 in the source (src/synth_engine.h:23); the
\* model keeps the pool small, and every voice of it is allocated, stolen and
\* processed as in the source
MAX_VOICES == 2
\* the units of a level of 1.0
LevelOne == 100
\* the sample rate handed to synth_init, in Hz
SampleRate == 10
\* synth_process stops when the sample counter reaches this
MaxTime == 2
\* the number of operations EngineSpec runs
MaxOps == 7
\* the notes played
Notes == {60, 61}
Velocities == {LevelOne}
VoiceIds == 0 .. (MAX_VOICES - 1)

\* the mutant: the value is stored as it comes
clamp_none(value, min, max) == value

clamp(value, min, max) == IF value < min THEN min ELSE IF value > max THEN max ELSE value

\* lerp(a, b, t) with t = tnum / tden
lerp(a, b, tnum, tden) == a + ((b - a) * tnum) \div tden

\* memset(0) then envelope_init
envelope_init ==
    [attack |-> 10, decay |-> 100, sustain |-> (7 * LevelOne) \div 10, release |-> 300,
     state |-> "ENV_OFF", current_level |-> 0, target_level |-> 0, velocity |-> 0,
     retrigger |-> FALSE, loop |-> FALSE]

\* velocity_sensitivity is 0.5 (envelope_init) and never changed
envelope_trigger(env, velocity) ==
    [env EXCEPT !.velocity = velocity,
                !.state = "ENV_ATTACK",
                !.target_level = (LevelOne * lerp(LevelOne, velocity, 1, 2)) \div LevelOne,
                !.current_level = IF env.retrigger THEN 0 ELSE @]

envelope_release(env) ==
    [env EXCEPT !.state = "ENV_RELEASE", !.target_level = 0]

\* x / (seconds * sample_rate), with the time in milliseconds
PerFrame(x, ms, sample_rate) == (x * 1000) \div (ms * sample_rate)

\* the mutant: the sustain stage loops whether loop is set or not
envelope_process_sustain_loops(env) ==
    [env EXCEPT !.current_level = IF env.retrigger THEN 0 ELSE env.sustain,
                !.state = "ENV_ATTACK"]

\* the ENV_SUSTAIN case of envelope_process
envelope_process_sustain(env) ==
    IF env.loop
    THEN [env EXCEPT !.current_level = IF env.retrigger THEN 0 ELSE env.sustain,
                     !.state = "ENV_ATTACK"]
    ELSE [env EXCEPT !.current_level = env.sustain]

envelope_process(env, sample_rate) ==
    CASE env.state = "ENV_OFF" -> env
      [] env.state = "ENV_ATTACK" ->
            IF env.attack > 0
            THEN LET level == env.current_level + PerFrame(LevelOne, env.attack, sample_rate)
                 IN IF level >= env.target_level
                    THEN [env EXCEPT !.current_level = env.target_level, !.state = "ENV_DECAY"]
                    ELSE [env EXCEPT !.current_level = level]
            ELSE [env EXCEPT !.current_level = env.target_level, !.state = "ENV_DECAY"]
      [] env.state = "ENV_DECAY" ->
            IF env.decay > 0
            THEN LET level == env.current_level
                              - PerFrame(env.target_level - env.sustain, env.decay, sample_rate)
                 IN IF level <= env.sustain
                    THEN [env EXCEPT !.current_level = env.sustain, !.state = "ENV_SUSTAIN"]
                    ELSE [env EXCEPT !.current_level = level]
            ELSE [env EXCEPT !.current_level = env.sustain, !.state = "ENV_SUSTAIN"]
      [] env.state = "ENV_SUSTAIN" -> envelope_process_sustain(env)
      [] env.state = "ENV_RELEASE" ->
            IF env.release > 0
            THEN LET level == env.current_level
                              - PerFrame(env.current_level, env.release, sample_rate)
                 IN IF level <= 0
                    THEN [env EXCEPT !.current_level = 0, !.state = "ENV_OFF"]
                    ELSE [env EXCEPT !.current_level = level]
            ELSE [env EXCEPT !.current_level = 0, !.state = "ENV_OFF"]

envelope_is_active(env) == env.state # "ENV_OFF"

\* the value envelope_process returns
envelope_process_value(env, sample_rate) ==
    IF env.state = "ENV_OFF" THEN 0
    ELSE clamp(envelope_process(env, sample_rate).current_level, 0, LevelOne)

\* target_pitch: midi_to_freq(note) * bend ratio, kept as the pair it is computed from
Pitch(note, bend) == <<note, bend>>

\* memset(0) then the initialisers of voice_init
voice_init ==
    [state |-> "VOICE_OFF", midi_note |-> 0, velocity |-> 0,
     env_amp |-> envelope_init, env_filter |-> envelope_init, env_pitch |-> envelope_init,
     filter |-> [cutoff |-> 1000, resonance |-> 0, mode |-> 0, env_amount |-> 0],
     pitch_bend |-> 0, glide_rate |-> 0, target_pitch |-> Pitch(0, 0),
     note_on_time |-> 0, note_off_time |-> 0]

voice_note_on(voice, midi_note, velocity, time) ==
    [voice EXCEPT !.state = "VOICE_ATTACK",
                  !.midi_note = midi_note,
                  !.velocity = velocity,
                  !.note_on_time = time,
                  !.target_pitch = Pitch(midi_note, 0),
                  !.env_amp = envelope_trigger(@, velocity),
                  !.env_filter = envelope_trigger(@, velocity),
                  !.env_pitch = envelope_trigger(@, velocity)]

voice_note_off(voice, time) ==
    [voice EXCEPT !.state = "VOICE_RELEASE",
                  !.note_off_time = time,
                  !.env_amp = envelope_release(@),
                  !.env_filter = envelope_release(@),
                  !.env_pitch = envelope_release(@)]

\* the mutant: the "voice is done" check after the envelopes is lost
voice_process_never_done(voice, sample_rate) ==
    IF voice.state = "VOICE_OFF"
    THEN voice
    ELSE [voice EXCEPT !.env_amp = envelope_process(@, sample_rate),
                       !.env_filter = envelope_process(@, sample_rate),
                       !.env_pitch = envelope_process(@, sample_rate)]

voice_process(voice, sample_rate) ==
    IF voice.state = "VOICE_OFF"
    THEN voice
    ELSE LET v == [voice EXCEPT !.env_amp = envelope_process(@, sample_rate),
                                !.env_filter = envelope_process(@, sample_rate),
                                !.env_pitch = envelope_process(@, sample_rate)]
         IN IF ~envelope_is_active(v.env_amp)
            THEN [v EXCEPT !.state = "VOICE_OFF"]
            ELSE v

voice_is_active(voice) == voice.state # "VOICE_OFF"

\* synth_init: the engine's fields, and every voice initialised and given the
\* engine's envelope values
synth_init(sample_rate) ==
    [sample_rate |-> sample_rate, sample_counter |-> 0,
     tempo |-> 120, master_volume |-> (7 * LevelOne) \div 10,
     mono_mode |-> FALSE, legato_mode |-> FALSE, glide_time |-> 0,
     filter_cutoff |-> 8000, filter_resonance |-> (3 * LevelOne) \div 10,
     filter_mode |-> 0, filter_env_amount |-> 0,
     env_attack |-> 10, env_decay |-> 100, env_sustain |-> (7 * LevelOne) \div 10,
     env_release |-> 300]

synth_init_voices(s) ==
    [i \in VoiceIds |->
        [voice_init EXCEPT !.filter = [cutoff |-> s.filter_cutoff,
                                        resonance |-> s.filter_resonance,
                                        mode |-> s.filter_mode,
                                        env_amount |-> s.filter_env_amount],
                           !.env_amp.attack = s.env_attack,
                           !.env_amp.decay = s.env_decay,
                           !.env_amp.sustain = s.env_sustain,
                           !.env_amp.release = s.env_release]]

NoOp == [name |-> "synth_init", note |-> 0, full |-> FALSE, fresh |-> <<>>]

EInit ==
    /\ synth = synth_init(SampleRate)
    /\ voices = synth_init_voices(synth)
    /\ lastOp = NoOp
    /\ opCount = 0

\* the first loop of synth_allocate_voice: the lowest Off voice, MAX_VOICES if none
RECURSIVE FirstOff(_, _)
FirstOff(vs, i) ==
    IF i >= MAX_VOICES THEN MAX_VOICES
    ELSE IF vs[i].state = "VOICE_OFF" THEN i
    ELSE FirstOff(vs, i + 1)

\* the mutant: the steal loop compares with > and so keeps the newest
RECURSIVE NewestFrom(_, _, _)
NewestFrom(vs, i, newest) ==
    IF i >= MAX_VOICES THEN newest
    ELSE IF vs[i].note_on_time > vs[newest].note_on_time
         THEN NewestFrom(vs, i + 1, i)
         ELSE NewestFrom(vs, i + 1, newest)

\* the second loop of synth_allocate_voice: the voice with the smallest
\* note_on_time, the lowest index among equals
RECURSIVE OldestFrom(_, _, _)
OldestFrom(vs, i, oldest) ==
    IF i >= MAX_VOICES THEN oldest
    ELSE IF vs[i].note_on_time < vs[oldest].note_on_time
         THEN OldestFrom(vs, i + 1, i)
         ELSE OldestFrom(vs, i + 1, oldest)

\* the mutant: steals the newest voice
synth_allocate_voice_newest(vs) ==
    IF FirstOff(vs, 0) < MAX_VOICES THEN FirstOff(vs, 0) ELSE NewestFrom(vs, 1, 0)

\* the mutant: the search for a free voice is lost
synth_allocate_voice_no_free_scan(vs) == OldestFrom(vs, 1, 0)

synth_allocate_voice(vs) ==
    IF FirstOff(vs, 0) < MAX_VOICES THEN FirstOff(vs, 0) ELSE OldestFrom(vs, 1, 0)

PoolFull(vs) == \A i \in VoiceIds : vs[i].state # "VOICE_OFF"

\* "fresh": the notes triggered so far, while the engine has run nothing but
\* at most MAX_VOICES note_on calls since synth_init; "used" once it has
Fresh(name, note) ==
    IF name = "synth_note_on" /\ lastOp.fresh # "used" /\ Len(lastOp.fresh) < MAX_VOICES
    THEN Append(lastOp.fresh, note)
    ELSE "used"

\* the record of an operation: its name, its note, whether it found the pool full
Op(name, note) ==
    [name |-> name, note |-> note, full |-> PoolFull(voices), fresh |-> Fresh(name, note)]

\* the mutant: mono mode retriggers whether legato is set or not
synth_note_on_retriggers(s, vs, note, velocity) ==
    IF s.mono_mode
    THEN [vs EXCEPT ![0] = [voice_note_on(vs[0], note, velocity, s.sample_counter)
                            EXCEPT !.glide_rate = s.glide_time]]
    ELSE LET i == synth_allocate_voice(vs)
         IN [vs EXCEPT ![i] = [voice_note_on(vs[i], note, velocity, s.sample_counter)
                               EXCEPT !.glide_rate = s.glide_time]]

synth_note_on(s, vs, note, velocity) ==
    IF s.mono_mode
    THEN [vs EXCEPT ![0] =
            [(IF s.legato_mode /\ voice_is_active(vs[0])
              THEN [vs[0] EXCEPT !.midi_note = note, !.target_pitch = Pitch(note, 0)]
              ELSE voice_note_on(vs[0], note, velocity, s.sample_counter))
             EXCEPT !.glide_rate = s.glide_time]]
    ELSE LET i == synth_allocate_voice(vs)
         IN [vs EXCEPT ![i] = [voice_note_on(vs[i], note, velocity, s.sample_counter)
                               EXCEPT !.glide_rate = s.glide_time]]

\* the mutant: voices already in Release are released again
synth_note_off_rereleases(s, vs, note) ==
    [i \in VoiceIds |->
        IF vs[i].midi_note = note /\ vs[i].state # "VOICE_OFF"
        THEN voice_note_off(vs[i], s.sample_counter)
        ELSE vs[i]]

synth_note_off(s, vs, note) ==
    [i \in VoiceIds |->
        IF vs[i].midi_note = note /\ vs[i].state # "VOICE_OFF" /\ vs[i].state # "VOICE_RELEASE"
        THEN voice_note_off(vs[i], s.sample_counter)
        ELSE vs[i]]

\* the mutant: the loop ends at the first active voice
synth_all_notes_off_first_only(s, vs) ==
    [i \in VoiceIds |->
        IF voice_is_active(vs[i]) /\ \A j \in 0 .. (i - 1) : ~voice_is_active(vs[j])
        THEN voice_note_off(vs[i], s.sample_counter) ELSE vs[i]]

synth_all_notes_off(s, vs) ==
    [i \in VoiceIds |->
        IF voice_is_active(vs[i]) THEN voice_note_off(vs[i], s.sample_counter) ELSE vs[i]]

synth_pitch_bend(vs, amount) ==
    [i \in VoiceIds |->
        IF voice_is_active(vs[i])
        THEN [vs[i] EXCEPT !.pitch_bend = amount, !.target_pitch = Pitch(vs[i].midi_note, amount)]
        ELSE vs[i]]

\* one frame of synth_process: every active voice processed, the counter advanced
synth_process_voices(s, vs) ==
    [i \in VoiceIds |->
        IF voice_is_active(vs[i]) THEN voice_process(vs[i], s.sample_rate) ELSE vs[i]]

\* FilterMode: FILTER_LP = 0 .. FILTER_ALLPASS = 4
FILTER_LP == 0
FILTER_COUNT == 5

\* the mutant: the message's value is added to the tempo
synth_set_tempo_relative(s, bpm) == [s EXCEPT !.tempo = clamp(s.tempo + bpm, 20, 300)]

synth_set_tempo(s, bpm) == [s EXCEPT !.tempo = clamp(bpm, 20, 300)]

\* a null ParamMsg pointer
NullMsg == [id |-> "NULL", value |-> 0]

\* a null SynthEngine pointer
NullEngine == [null |-> TRUE]

\* the mutant: an identifier the switch does not know is reported as handled
synth_engine_apply_param_default_true(s, vs) == <<s, vs, TRUE>>

\* the default arm of the switch
synth_engine_apply_param_default(s, vs) == <<s, vs, FALSE>>

\* synth_engine_apply_param: <<engine, voices, result>>.  A message is
\* [id, value], or NullMsg; float values are in the units of the field (level
\* units, bpm, Hz, milliseconds).
synth_engine_apply_param(s, vs, msg) ==
    IF s = NullEngine \/ msg = NullMsg THEN <<s, vs, FALSE>>
    ELSE
    CASE msg.id = "PARAM_MASTER_VOLUME" ->
            <<[s EXCEPT !.master_volume = clamp(msg.value, 0, LevelOne)], vs, TRUE>>
      [] msg.id = "PARAM_TEMPO" ->
            <<synth_set_tempo(s, msg.value), vs, TRUE>>
      [] msg.id = "PARAM_FILTER_CUTOFF" ->
            LET cutoff == clamp(msg.value, 20, 20000)
            IN <<[s EXCEPT !.filter_cutoff = cutoff],
                 [i \in VoiceIds |-> [vs[i] EXCEPT !.filter.cutoff = cutoff]], TRUE>>
      [] msg.id = "PARAM_FILTER_RESONANCE" ->
            LET resonance == clamp(msg.value, 0, LevelOne)
            IN <<[s EXCEPT !.filter_resonance = resonance],
                 [i \in VoiceIds |-> [vs[i] EXCEPT !.filter.resonance = resonance]], TRUE>>
      [] msg.id = "PARAM_FILTER_MODE" ->
            LET m1 == IF msg.value < FILTER_LP THEN FILTER_LP ELSE msg.value
                mode == IF m1 >= FILTER_COUNT THEN FILTER_COUNT - 1 ELSE m1
            IN <<[s EXCEPT !.filter_mode = mode],
                 [i \in VoiceIds |-> [vs[i] EXCEPT !.filter.mode = mode]], TRUE>>
      [] msg.id = "PARAM_FILTER_ENV_AMOUNT" ->
            LET amount == clamp(msg.value, -LevelOne, LevelOne)
            IN <<[s EXCEPT !.filter_env_amount = amount],
                 [i \in VoiceIds |-> [vs[i] EXCEPT !.filter.env_amount = amount]], TRUE>>
      [] msg.id = "PARAM_ENV_AMP_ATTACK" ->
            LET attack == clamp(msg.value, 1, 2000)
            IN <<[s EXCEPT !.env_attack = attack],
                 [i \in VoiceIds |-> [vs[i] EXCEPT !.env_amp.attack = attack]], TRUE>>
      [] msg.id = "PARAM_ENV_AMP_DECAY" ->
            LET decay == clamp(msg.value, 1, 2000)
            IN <<[s EXCEPT !.env_decay = decay],
                 [i \in VoiceIds |-> [vs[i] EXCEPT !.env_amp.decay = decay]], TRUE>>
      [] msg.id = "PARAM_ENV_AMP_SUSTAIN" ->
            LET sustain == clamp(msg.value, 0, LevelOne)
            IN <<[s EXCEPT !.env_sustain = sustain],
                 [i \in VoiceIds |-> [vs[i] EXCEPT !.env_amp.sustain = sustain]], TRUE>>
      [] msg.id = "PARAM_ENV_AMP_RELEASE" ->
            LET release == clamp(msg.value, 1, 5000)
            IN <<[s EXCEPT !.env_release = release],
                 [i \in VoiceIds |-> [vs[i] EXCEPT !.env_amp.release = release]], TRUE>>
      [] msg.id = "PARAM_PANIC" ->
            <<s, synth_all_notes_off(s, vs), TRUE>>
      [] OTHER -> synth_engine_apply_param_default(s, vs)

\* the parameter messages the engine is sent
EngineMsgs ==
    {[id |-> "PARAM_ENV_AMP_RELEASE", value |-> v] : v \in {0, 300}}
    \cup {[id |-> "PARAM_PANIC", value |-> 1], [id |-> "PARAM_FX_DELAY_MIX", value |-> 0]}

BendAmounts == {0, 1}

(***************************************************************************)
(* The engine's operations, one action each.                               *)
(***************************************************************************)
NoteOn(note, velocity) ==
    /\ voices' = synth_note_on(synth, voices, note, velocity)
    /\ UNCHANGED synth

NoteOff(note) ==
    /\ voices' = synth_note_off(synth, voices, note)
    /\ UNCHANGED synth

AllNotesOff ==
    /\ voices' = synth_all_notes_off(synth, voices)
    /\ UNCHANGED synth

PitchBend(amount) ==
    /\ voices' = synth_pitch_bend(voices, amount)
    /\ UNCHANGED synth

ApplyParam(msg) ==
    LET r == synth_engine_apply_param(synth, voices, msg)
    IN /\ synth' = r[1]
       /\ voices' = r[2]

\* one frame of synth_process
ProcessFrame ==
    /\ synth.sample_counter < MaxTime
    /\ voices' = synth_process_voices(synth, voices)
    /\ synth' = [synth EXCEPT !.sample_counter = @ + 1]

\* the owner of the engine writes its public mono_mode and legato_mode fields
SetVoiceMode(mono, legato) ==
    /\ <<mono, legato>> # <<synth.mono_mode, synth.legato_mode>>
    /\ synth' = [synth EXCEPT !.mono_mode = mono, !.legato_mode = legato]
    /\ UNCHANGED voices

\* every operation of the engine, in any mode, up to MaxOps operations
EngineInit == EInit /\ QParked /\ DParked /\ SParked /\ AParked /\ WParked

EIdle == UNCHANGED <<qvars, dvars, svars, avars, wvars>>

\* one more operation within the budget
Budget == opCount < MaxOps /\ opCount' = opCount + 1 /\ UNCHANGED lastOp /\ EIdle

ENext ==
    \/ \E note \in Notes, velocity \in Velocities : Budget /\ NoteOn(note, velocity)
    \/ \E note \in Notes : Budget /\ NoteOff(note)
    \/ Budget /\ AllNotesOff
    \/ \E amount \in BendAmounts : Budget /\ PitchBend(amount)
    \/ \E msg \in EngineMsgs \cup {NullMsg} : Budget /\ ApplyParam(msg)
    \/ Budget /\ ProcessFrame
    \/ \E mono, legato \in BOOLEAN : Budget /\ SetVoiceMode(mono, legato)

EngineSpec == EngineInit /\ [][ENext]_vars

\* the polyphonic engine as the applications run it (mono_mode stays false),
\* with the last operation recorded
Recorded(name, note) == lastOp' = Op(name, note) /\ UNCHANGED opCount /\ EIdle

PolyNext ==
    \/ \E note \in Notes, velocity \in Velocities :
          NoteOn(note, velocity) /\ Recorded("synth_note_on", note)
    \/ \E note \in Notes : NoteOff(note) /\ Recorded("synth_note_off", note)
    \/ AllNotesOff /\ Recorded("synth_all_notes_off", 0)
    \/ ProcessFrame /\ Recorded("synth_process", 0)

PolySpec == EngineInit /\ [][PolyNext]_vars

-----------------------------------------------------------------------------
(***************************************************************************)
(* The engine's claims.                                                    *)
(***************************************************************************)
Active(vs) == {i \in VoiceIds : vs[i].state # "VOICE_OFF"}

\* C6: in polyphonic mode, a note_on that finds every voice non-Off takes a
\* voice whose note_on_time is the smallest of all; after it that voice holds
\* the new note in state Attack, and every other voice keeps its note and state.
C6_FullPoolStealsOldest ==
    [][(lastOp'.name = "synth_note_on" /\ lastOp'.full /\ ~synth.mono_mode) =>
          \E i \in VoiceIds :
             /\ \A j \in VoiceIds : voices[i].note_on_time <= voices[j].note_on_time
             /\ voices'[i].midi_note = lastOp'.note
             /\ voices'[i].state = "VOICE_ATTACK"
             /\ voices'[i].note_on_time = synth.sample_counter
             /\ \A j \in VoiceIds \ {i} :
                   /\ voices'[j].midi_note = voices[j].midi_note
                   /\ voices'[j].state = voices[j].state]_vars

\* C6's case: both voices were sounding, voice 0 the later one, and the
\* note_on of 61 took voice 1, the older, while it sounded
C6_Witness ==
    /\ lastOp.name = "synth_note_on" /\ lastOp.note = 61 /\ lastOp.full
    /\ synth.sample_counter > 0
    /\ voices[1].midi_note = 61
    /\ voices[1].state = "VOICE_ATTACK"
    /\ voices[1].note_on_time = synth.sample_counter
    /\ voices[1].env_amp.current_level > 0
    /\ voices[0].midi_note = 60
    /\ voices[0].state = "VOICE_ATTACK"
    /\ voices[0].note_on_time = synth.sample_counter
    /\ \A i \in VoiceIds : voices[i].state # "VOICE_OFF"

\* C7: in polyphonic mode, a note_on that finds an Off voice takes an Off voice
\* and changes no other voice; and after k <= MAX_VOICES note_on calls on a
\* freshly initialised engine exactly k voices are non-Off, one per triggered
\* note.
C7_FreeVoiceTakenFirst ==
    /\ [](lastOp.fresh # "used" =>
             /\ Cardinality(Active(voices)) = Len(lastOp.fresh)
             /\ \A k \in 1 .. Len(lastOp.fresh) :
                   /\ voices[k - 1].midi_note = lastOp.fresh[k]
                   /\ voices[k - 1].state = "VOICE_ATTACK")
    /\ [][(lastOp'.name = "synth_note_on" /\ ~lastOp'.full /\ ~synth.mono_mode) =>
             \E i \in VoiceIds :
                /\ voices[i].state = "VOICE_OFF"
                /\ voices'[i].state = "VOICE_ATTACK"
                /\ voices'[i].midi_note = lastOp'.note
                /\ \A j \in VoiceIds \ {i} : voices'[j] = voices[j]]_vars

\* C7's case: a note_on took the Off voice 0 while voice 1 was sounding in
\* Release, which kept its note, state and timestamps
C7_Witness ==
    /\ lastOp.name = "synth_note_on" /\ ~lastOp.full /\ lastOp.note = 61
    /\ voices[0].state = "VOICE_ATTACK" /\ voices[0].midi_note = 61
    /\ voices[0].note_on_time = synth.sample_counter
    /\ voices[1].state = "VOICE_RELEASE" /\ voices[1].midi_note = 60
    /\ voices[1].note_on_time < voices[1].note_off_time
    /\ voices[1].note_off_time < synth.sample_counter

\* C8: note_off(note) moves to Release every voice that holds the note and is
\* neither Off nor in Release, and changes no other voice.
C8_NoteOffReleasesHolders ==
    [][lastOp'.name = "synth_note_off" =>
          \A i \in VoiceIds :
             IF /\ voices[i].midi_note = lastOp'.note
                /\ voices[i].state \notin {"VOICE_OFF", "VOICE_RELEASE"}
             THEN /\ voices'[i].state = "VOICE_RELEASE"
                  /\ voices'[i].note_off_time = synth.sample_counter
                  /\ voices'[i].env_amp.state = "ENV_RELEASE"
                  /\ voices'[i].midi_note = voices[i].midi_note
             ELSE voices'[i] = voices[i]]_vars

\* C8's case: note_off(60) released voice 1, and left alone voice 0, which
\* holds the same note and was released a frame earlier
C8_Witness ==
    /\ lastOp.name = "synth_note_off" /\ lastOp.note = 60
    /\ voices[1].state = "VOICE_RELEASE" /\ voices[1].midi_note = 60
    /\ voices[1].note_off_time = synth.sample_counter
    /\ voices[0].state = "VOICE_RELEASE" /\ voices[0].midi_note = 60
    /\ voices[0].note_off_time < synth.sample_counter
    /\ voices[0].env_amp.current_level > 0

\* C9: after every engine operation a voice is Off exactly when its amplitude
\* envelope is Off.
C9_VoiceOffIffAmpEnvelopeOff ==
    \A i \in VoiceIds :
        voices[i].state = "VOICE_OFF" <=> voices[i].env_amp.state = "ENV_OFF"

\* C9's case: voice 0 was played, released and has gone Off in synth_process
\* while voice 1 is still in Release
C9_Witness ==
    /\ synth.sample_counter > 0
    /\ voices[0].state = "VOICE_OFF" /\ voices[0].midi_note \in Notes
    /\ voices[0].env_amp.state = "ENV_OFF"
    /\ voices[1].state = "VOICE_RELEASE" /\ voices[1].env_amp.state = "ENV_RELEASE"
    /\ voices[1].env_amp.current_level > 0

-----------------------------------------------------------------------------
(***************************************************************************)
(* The MIDI decoder: midi_parse_packet and midi_handle_message of          *)
(* src/midi_input.c.  A feed is one call of midi_parse_packet, as          *)
(* midi_read_proc makes for each packet.                                   *)
(***************************************************************************)
\* the longest feed, but for the specification's example
MaxFeedLen == 5

\* the byte values of the feeds: data bytes 0, 60, 100; status bytes 0x81
\* (note off, channel 1), 0x90 (note on, channel 0), 0xB0 (control change),
\* 0xC0 (program change), 0xF8 (timing clock, a system real-time byte)
Bytes == {0, 60, 100, 129, 144, 176, 192, 248}

\* the running-status example of the specification
ExampleFeed == <<144, 60, 100, 62, 100, 64, 0>>

Feeds == UNION {[1 .. n -> Bytes] : n \in 0 .. MaxFeedLen} \cup {ExampleFeed}

\* byte & 0x80
IsStatusByte(byte) == byte >= 128

\* status & 0xF0 and status & 0x0F
StatusType(status) == (status \div 16) * 16
Channel(status) == status % 16

MidiEvent(type, channel, data1, data2) ==
    [type |-> type, channel |-> channel, data1 |-> data1, data2 |-> data2]

\* the mutant: a note-on is a note-on whatever its velocity
midi_handle_message_velocity_kept(status, data1, data2) ==
    LET status_type == StatusType(status)
        channel == Channel(status)
    IN CASE status_type = 128 -> <<MidiEvent("MIDI_EVENT_NOTE_OFF", channel, data1, data2)>>
         [] status_type = 144 -> <<MidiEvent("MIDI_EVENT_NOTE_ON", channel, data1, data2)>>
         [] status_type = 160 -> <<MidiEvent("MIDI_EVENT_AFTERTOUCH", channel, data1, data2)>>
         [] status_type = 176 -> <<MidiEvent("MIDI_EVENT_CONTROL_CHANGE", channel, data1, data2)>>
         [] status_type = 192 -> <<MidiEvent("MIDI_EVENT_PROGRAM_CHANGE", channel, data1, 0)>>
         [] status_type = 208 -> <<MidiEvent("MIDI_EVENT_AFTERTOUCH", channel, 0, data1)>>
         [] status_type = 224 -> <<MidiEvent("MIDI_EVENT_PITCH_BEND", channel, data1, data2)>>
         [] OTHER -> <<>>

\* midi_handle_message: the events it pushes (one, or none for a status type
\* it does not know)
midi_handle_message(status, data1, data2) ==
    LET status_type == StatusType(status)
        channel == Channel(status)
    IN CASE status_type = 128 -> <<MidiEvent("MIDI_EVENT_NOTE_OFF", channel, data1, data2)>>
         [] status_type = 144 ->
               IF data2 = 0
               THEN <<MidiEvent("MIDI_EVENT_NOTE_OFF", channel, data1, data2)>>
               ELSE <<MidiEvent("MIDI_EVENT_NOTE_ON", channel, data1, data2)>>
         [] status_type = 160 -> <<MidiEvent("MIDI_EVENT_AFTERTOUCH", channel, data1, data2)>>
         [] status_type = 176 -> <<MidiEvent("MIDI_EVENT_CONTROL_CHANGE", channel, data1, data2)>>
         [] status_type = 192 -> <<MidiEvent("MIDI_EVENT_PROGRAM_CHANGE", channel, data1, 0)>>
         [] status_type = 208 -> <<MidiEvent("MIDI_EVENT_AFTERTOUCH", channel, 0, data1)>>
         [] status_type = 224 -> <<MidiEvent("MIDI_EVENT_PITCH_BEND", channel, data1, data2)>>
         [] OTHER -> <<>>

\* bytes[i], with the source's 0-based index
ByteAt(i) == packet[i + 1]

DInit ==
    /\ packet \in Feeds
    /\ pos = 0
    /\ running_status = 0
    /\ mpc = "call"
    /\ events = <<>>
    /\ eventAt = <<>>

\* midi_parse_packet is entered: an empty feed returns at once
ParseCall ==
    /\ mpc = "call"
    /\ mpc' = IF Len(packet) = 0 THEN "done" ELSE "loop"
    /\ running_status' = 0
    /\ pos' = 0
    /\ UNCHANGED <<packet, events, eventAt>>

\* the loop's condition fails
ParseEnd ==
    /\ mpc = "loop"
    /\ pos >= Len(packet)
    /\ mpc' = "done"
    /\ UNCHANGED <<packet, pos, running_status, events, eventAt>>

\* a byte with the high bit set becomes the running status
ParseStatus ==
    /\ mpc = "loop"
    /\ pos < Len(packet)
    /\ IsStatusByte(ByteAt(pos))
    /\ running_status' = ByteAt(pos)
    /\ pos' = pos + 1
    /\ UNCHANGED <<packet, mpc, events, eventAt>>

\* a data byte with no running status is skipped
ParseSkipData ==
    /\ mpc = "loop"
    /\ pos < Len(packet)
    /\ ~IsStatusByte(ByteAt(pos))
    /\ running_status = 0
    /\ pos' = pos + 1
    /\ UNCHANGED <<packet, running_status, mpc, events, eventAt>>

Emit(evs, i) ==
    /\ events' = events \o evs
    /\ eventAt' = eventAt \o [k \in 1 .. Len(evs) |-> i]

\* program change and channel pressure take one data byte
ParseOneData ==
    /\ mpc = "loop"
    /\ pos < Len(packet)
    /\ ~IsStatusByte(ByteAt(pos))
    /\ running_status # 0
    /\ StatusType(running_status) \in {192, 208}
    /\ Emit(midi_handle_message(running_status, ByteAt(pos), 0), pos)
    /\ pos' = pos + 1
    /\ UNCHANGED <<packet, running_status, mpc>>

\* the mutant: the byte after i is taken without asking whether the feed has
\* it (what lies behind the feed reads as 0)
ParseTwoData_unchecked ==
    /\ mpc = "loop"
    /\ pos < Len(packet)
    /\ ~IsStatusByte(ByteAt(pos))
    /\ running_status # 0
    /\ StatusType(running_status) \in {128, 144, 160, 176, 224}
    /\ Emit(midi_handle_message(running_status, ByteAt(pos),
                                IF pos + 1 < Len(packet) THEN ByteAt(pos + 1) ELSE 0), pos)
    /\ pos' = pos + 2
    /\ UNCHANGED <<packet, running_status, mpc>>

\* the other channel messages take two: the byte at i and the byte after it
ParseTwoData ==
    /\ mpc = "loop"
    /\ pos < Len(packet)
    /\ ~IsStatusByte(ByteAt(pos))
    /\ running_status # 0
    /\ StatusType(running_status) \in {128, 144, 160, 176, 224}
    /\ pos + 1 < Len(packet)
    /\ Emit(midi_handle_message(running_status, ByteAt(pos), ByteAt(pos + 1)), pos)
    /\ pos' = pos + 2
    /\ UNCHANGED <<packet, running_status, mpc>>

\* ... and return when the byte after it is not in the feed
ParseTruncated ==
    /\ mpc = "loop"
    /\ pos < Len(packet)
    /\ ~IsStatusByte(ByteAt(pos))
    /\ running_status # 0
    /\ StatusType(running_status) \in {128, 144, 160, 176, 224}
    /\ pos + 1 >= Len(packet)
    /\ mpc' = "done"
    /\ UNCHANGED <<packet, pos, running_status, events, eventAt>>

\* a data byte under any other status is skipped
ParseUnsupported ==
    /\ mpc = "loop"
    /\ pos < Len(packet)
    /\ ~IsStatusByte(ByteAt(pos))
    /\ running_status # 0
    /\ StatusType(running_status) \notin {128, 144, 160, 176, 192, 208, 224}
    /\ pos' = pos + 1
    /\ UNCHANGED <<packet, running_status, mpc, events, eventAt>>

DecoderInit == DInit /\ QParked /\ EParked /\ SParked /\ AParked /\ WParked

DIdle == UNCHANGED <<qvars, evars, svars, avars, wvars>>

DNext ==
    \/ ParseCall /\ DIdle
    \/ ParseEnd /\ DIdle
    \/ ParseStatus /\ DIdle
    \/ ParseSkipData /\ DIdle
    \/ ParseOneData /\ DIdle
    \/ ParseTwoData /\ DIdle
    \/ ParseTruncated /\ DIdle
    \/ ParseUnsupported /\ DIdle

DecoderSpec == DecoderInit /\ [][DNext]_vars

-----------------------------------------------------------------------------
(***************************************************************************)
(* The decoder's claims.  Positions in a feed are counted from 1 here:     *)
(* the byte at position p is bytes[p - 1], and an event made at index i    *)
(* has its first data byte at position i + 1.                              *)
(***************************************************************************)
TwoDataClasses == {128, 144, 160, 176, 224}

\* the number of data bytes that follow position p, up to the next status
\* byte or the end of the feed
RECURSIVE DataRun(_)
DataRun(p) ==
    IF p + 1 > Len(packet) \/ IsStatusByte(packet[p + 1]) THEN 0 ELSE 1 + DataRun(p + 1)

\* the events made from the bytes at positions lo .. hi, in order
RECURSIVE EventsFrom(_, _, _)
EventsFrom(k, lo, hi) ==
    IF k > Len(events) THEN <<>>
    ELSE IF eventAt[k] + 1 >= lo /\ eventAt[k] + 1 <= hi
         THEN <<events[k]>> \o EventsFrom(k + 1, lo, hi)
         ELSE EventsFrom(k + 1, lo, hi)

\* the event type of a message class, a note on of velocity 0 being a note off
ClassEvent(status_type, data2) ==
    CASE status_type = 128 -> "MIDI_EVENT_NOTE_OFF"
      [] status_type = 144 -> IF data2 = 0 THEN "MIDI_EVENT_NOTE_OFF" ELSE "MIDI_EVENT_NOTE_ON"
      [] status_type = 160 -> "MIDI_EVENT_AFTERTOUCH"
      [] status_type = 176 -> "MIDI_EVENT_CONTROL_CHANGE"
      [] status_type = 224 -> "MIDI_EVENT_PITCH_BEND"

\* the events the pairs after the status byte at position p stand for
PairEvents(p, k) ==
    [j \in 1 .. k |->
        MidiEvent(ClassEvent(StatusType(packet[p]), packet[p + 2 * j]),
                  Channel(packet[p]), packet[p + 2 * j - 1], packet[p + 2 * j])]

\* C10: when a feed has been parsed, every status byte of a two-data-byte
\* class in it that is followed by 2k data bytes has given exactly k events,
\* in order, the j-th with the class and channel of the status byte and the
\* j-th pair as its data bytes; and the feed 0x90 60 100 62 100 64 0 has
\* given note-on(60,100), note-on(62,100), note-off(64).
C10_RunningStatusPairs ==
    mpc = "done" =>
       /\ \A p \in 1 .. Len(packet) :
             (/\ IsStatusByte(packet[p])
              /\ StatusType(packet[p]) \in TwoDataClasses
              /\ DataRun(p) % 2 = 0) =>
                 EventsFrom(1, p + 1, p + DataRun(p)) = PairEvents(p, DataRun(p) \div 2)
       /\ packet = ExampleFeed =>
             events = << MidiEvent("MIDI_EVENT_NOTE_ON", 0, 60, 100),
                         MidiEvent("MIDI_EVENT_NOTE_ON", 0, 62, 100),
                         MidiEvent("MIDI_EVENT_NOTE_OFF", 0, 64, 0) >>

\* the position of the last status byte before position q, 0 when there is none
RECURSIVE StatusBefore(_)
StatusBefore(q) ==
    IF q <= 1 THEN 0
    ELSE IF IsStatusByte(packet[q - 1]) THEN q - 1 ELSE StatusBefore(q - 1)

ChannelClasses == {128, 144, 160, 176, 192, 208, 224}

\* the data byte at position q is malformed input: no status byte comes
\* before it, or the last one before it is of an unsupported class
Malformed(q) ==
    /\ ~IsStatusByte(packet[q])
    /\ \/ StatusBefore(q) = 0
       \/ StatusType(packet[StatusBefore(q)]) \notin ChannelClasses

\* the number of data bytes a message of the status byte at position p takes
DataBytes(p) == IF StatusType(packet[p]) \in {192, 208} THEN 1 ELSE 2

\* the event the message that starts at position p stands for
MessageEvent(p) ==
    IF DataBytes(p) = 2
    THEN PairEvents(p, 1)[1]
    ELSE IF StatusType(packet[p]) = 192
         THEN MidiEvent("MIDI_EVENT_PROGRAM_CHANGE", Channel(packet[p]), packet[p + 1], 0)
         ELSE MidiEvent("MIDI_EVENT_AFTERTOUCH", Channel(packet[p]), 0, packet[p + 1])

\* C12: when a feed has been parsed, no event was made at a data byte that
\* has no status byte before it or follows a status byte of an unsupported
\* class (0xF0-0xFF); and a status byte of a channel class that comes after
\* nothing but such input, with its data bytes behind it, has given its event.
C12_MalformedInputSkipped ==
    mpc = "done" =>
       /\ \A q \in 1 .. Len(packet) :
             Malformed(q) => \A k \in 1 .. Len(events) : eventAt[k] + 1 # q
       /\ \A p \in 1 .. Len(packet) :
             (/\ IsStatusByte(packet[p])
              /\ StatusType(packet[p]) \in ChannelClasses
              /\ \A r \in 1 .. (p - 1) :
                    IsStatusByte(packet[r]) => StatusType(packet[r]) \notin ChannelClasses
              /\ DataRun(p) >= DataBytes(p)) =>
                 EventsFrom(1, p + 1, p + DataBytes(p)) = <<MessageEvent(p)>>

-----------------------------------------------------------------------------
(***************************************************************************)
(* midi_read_proc: the packets of a packet list are parsed one after the   *)
(* other, each by its own call of midi_parse_packet.  A byte stream        *)
(* arrives cut into two packets at any place.                              *)
(***************************************************************************)
\* the longest byte stream
MaxStreamLen == 4

Streams == UNION {[1 .. n -> Bytes] : n \in 0 .. MaxStreamLen}

NoCarry == [status |-> 0, data1 |-> 0, nevents |-> 0]

SInit ==
    /\ \E stream \in Streams : \E c \in 0 .. Len(stream) :
          /\ packet = SubSeq(stream, 1, c)
          /\ later = <<SubSeq(stream, c + 1, Len(stream))>>
    /\ carry = NoCarry
    /\ pos = 0
    /\ running_status = 0
    /\ mpc = "call"
    /\ events = <<>>
    /\ eventAt = <<>>

\* the loop of midi_read_proc goes to the next packet; the call that returned
\* kept nothing: the next call starts with its own running_status and index.
\* carry records where the call returned: in the middle of a two-byte
\* message (the only return that leaves i < length), or at the packet's end.
ParseNext ==
    /\ mpc = "done"
    /\ later # <<>>
    /\ packet' = Head(later)
    /\ later' = Tail(later)
    /\ carry' = IF pos < Len(packet)
                THEN [status |-> running_status, data1 |-> ByteAt(pos), nevents |-> Len(events)]
                ELSE [NoCarry EXCEPT !.nevents = Len(events)]
    /\ mpc' = "call"
    /\ UNCHANGED <<pos, running_status, events, eventAt>>

StreamInit == SInit /\ QParked /\ EParked /\ AParked /\ WParked

SIdle == UNCHANGED <<qvars, evars, avars, wvars>>

SNext ==
    \/ ParseCall /\ UNCHANGED svars /\ SIdle
    \/ ParseEnd /\ UNCHANGED svars /\ SIdle
    \/ ParseStatus /\ UNCHANGED svars /\ SIdle
    \/ ParseSkipData /\ UNCHANGED svars /\ SIdle
    \/ ParseOneData /\ UNCHANGED svars /\ SIdle
    \/ ParseTwoData /\ UNCHANGED svars /\ SIdle
    \/ ParseTruncated /\ UNCHANGED svars /\ SIdle
    \/ ParseUnsupported /\ UNCHANGED svars /\ SIdle
    \/ ParseNext /\ SIdle

StreamSpec == StreamInit /\ [][SNext]_vars

\* C13: a packet that ends after the first data byte of a two-data-byte
\* message gives no event for that message, and when the next packet begins
\* with the second data byte the message is emitted, first of that packet's
\* events, with the status and first data byte the decoder kept.
C13_SplitMessageCompleted ==
    /\ (mpc = "done" /\ pos < Len(packet)) =>
          \A k \in (carry.nevents + 1) .. Len(events) : eventAt[k] # pos
    /\ (mpc = "done" /\ carry.status # 0 /\ packet # <<>> /\ ~IsStatusByte(packet[1])) =>
          /\ Len(events) > carry.nevents
          /\ events[carry.nevents + 1] =
                MidiEvent(ClassEvent(StatusType(carry.status), packet[1]),
                          Channel(carry.status), carry.data1, packet[1])

-----------------------------------------------------------------------------
(***************************************************************************)
(* synth_engine_apply_param on every kind of message: each identifier the  *)
(* switch handles with a value below, inside and above its range, the      *)
(* panic message, identifiers it does not handle, a null message and a     *)
(* null engine, between note and process operations.                       *)
(***************************************************************************)
\* the number of operations of a run
MaxApply == 3

\* below every range, inside most, above every range
ParamValues == {-200, 2, 30000}

ValueParams ==
    {"PARAM_MASTER_VOLUME", "PARAM_TEMPO", "PARAM_FILTER_CUTOFF", "PARAM_FILTER_RESONANCE",
     "PARAM_FILTER_MODE", "PARAM_FILTER_ENV_AMOUNT", "PARAM_ENV_AMP_ATTACK",
     "PARAM_ENV_AMP_DECAY", "PARAM_ENV_AMP_SUSTAIN", "PARAM_ENV_AMP_RELEASE"}

PanicMsg == [id |-> "PARAM_PANIC", value |-> 1]

\* identifiers of the effects and the arpeggiator, and one past the last
OtherParams == {"PARAM_FX_DELAY_MIX", "PARAM_ARP_RATE", "PARAM_COUNT"}

ParamMsgs ==
    {[id |-> id, value |-> v] : id \in ValueParams, v \in ParamValues}
    \cup {[id |-> id, value |-> 2] : id \in OtherParams}
    \cup {PanicMsg}

\* the record of an operation: its name, its message, whether the engine
\* pointer was null, what it returned
Applied(name, msg, null, ret) == [name |-> name, msg |-> msg, null |-> null, ret |-> ret]

PInit ==
    /\ synth = synth_init(SampleRate)
    /\ voices = synth_init_voices(synth)
    /\ lastOp = Applied("synth_init", NullMsg, FALSE, FALSE)
    /\ opCount = 0

ParamInit == PInit /\ QParked /\ DParked /\ SParked /\ AParked /\ WParked

PStep == opCount < MaxApply /\ opCount' = opCount + 1 /\ EIdle

\* synth_engine_apply_param(&synth, msg)
PApply(msg) ==
    /\ ApplyParam(msg)
    /\ lastOp' = Applied("synth_engine_apply_param", msg, FALSE,
                         synth_engine_apply_param(synth, voices, msg)[3])

\* synth_engine_apply_param(NULL, msg)
PApplyNullEngine(msg) ==
    /\ UNCHANGED <<synth, voices>>
    /\ lastOp' = Applied("synth_engine_apply_param", msg, TRUE,
                         synth_engine_apply_param(NullEngine, voices, msg)[3])

PNext ==
    \/ \E msg \in ParamMsgs \cup {NullMsg} : PStep /\ PApply(msg)
    \/ \E msg \in {PanicMsg, NullMsg} : PStep /\ PApplyNullEngine(msg)
    \/ \E velocity \in Velocities :
          PStep /\ NoteOn(60, velocity)
                /\ lastOp' = Applied("synth_note_on", NullMsg, FALSE, FALSE)
    \/ PStep /\ NoteOff(60) /\ lastOp' = Applied("synth_note_off", NullMsg, FALSE, FALSE)
    \/ PStep /\ AllNotesOff
             /\ lastOp' = Applied("synth_all_notes_off", NullMsg, FALSE, FALSE)
    \/ PStep /\ ProcessFrame /\ lastOp' = Applied("synth_process", NullMsg, FALSE, FALSE)

ParamSpec == ParamInit /\ [][PNext]_vars

\* the identifiers synth_engine_apply_param is said to handle
HandledParams == ValueParams \cup {"PARAM_PANIC"}

\* C14: synth_engine_apply_param returns true exactly when the engine and the
\* message are not null and the identifier is one of master volume, tempo,
\* the four filter values, the four ADSR values and panic; and when it
\* returns false the engine and all voices are as they were.
C14_ReturnsTrueIffHandled ==
    [][lastOp'.name = "synth_engine_apply_param" =>
          /\ lastOp'.ret <=> (~lastOp'.null /\ lastOp'.msg.id \in HandledParams)
          /\ ~lastOp'.ret => UNCHANGED <<synth, voices>>]_vars

\* C14's case: a message of an effect was applied while a voice sounded, and
\* was refused
C14_Witness ==
    /\ lastOp.name = "synth_engine_apply_param"
    /\ lastOp.msg.id = "PARAM_FX_DELAY_MIX"
    /\ ~lastOp.null
    /\ ~lastOp.ret
    /\ \E i \in VoiceIds : voices[i].state = "VOICE_ATTACK"

\* apply(apply(s, m), m) = apply(s, m), on the engine and its voices
AppliedTwiceIsOnce(s, vs, m) ==
    LET once == synth_engine_apply_param(s, vs, m)
        twice == synth_engine_apply_param(once[1], once[2], m)
    IN twice[1] = once[1] /\ twice[2] = once[2]

\* C15: in every state the engine reaches, applying a parameter message a
\* second time changes nothing the first application has not changed; for
\* every message, the panic message and those with values below and above
\* the range among them.
C15_ApplyTwiceIsApplyOnce ==
    \A m \in ParamMsgs \cup {NullMsg} : AppliedTwiceIsOnce(synth, voices, m)

\* C15's case: the panic message has just been applied to a sounding voice
\* and has changed it, and so has a tempo above the range
C15_Witness ==
    /\ lastOp.name = "synth_engine_apply_param"
    /\ lastOp.msg = PanicMsg
    /\ lastOp.ret
    /\ \E i \in VoiceIds : voices[i].state = "VOICE_RELEASE"
    /\ synth.tempo = 300

InRange(value, min, max) == min <= value /\ value <= max

\* the valid ranges of the fields parameter messages set
FieldsInRange(s, vs) ==
    /\ InRange(s.master_volume, 0, LevelOne)
    /\ InRange(s.tempo, 20, 300)
    /\ InRange(s.filter_cutoff, 20, 20000)
    /\ InRange(s.filter_resonance, 0, LevelOne)
    /\ InRange(s.filter_mode, FILTER_LP, FILTER_COUNT - 1)
    /\ InRange(s.filter_env_amount, -LevelOne, LevelOne)
    /\ InRange(s.env_attack, 1, 2000)
    /\ InRange(s.env_decay, 1, 2000)
    /\ InRange(s.env_sustain, 0, LevelOne)
    /\ InRange(s.env_release, 1, 5000)
    /\ \A i \in VoiceIds :
          /\ InRange(vs[i].filter.cutoff, 20, 20000)
          /\ InRange(vs[i].filter.resonance, 0, LevelOne)
          /\ InRange(vs[i].filter.mode, FILTER_LP, FILTER_COUNT - 1)
          /\ InRange(vs[i].filter.env_amount, -LevelOne, LevelOne)
          /\ InRange(vs[i].env_amp.attack, 1, 2000)
          /\ InRange(vs[i].env_amp.decay, 1, 2000)
          /\ InRange(vs[i].env_amp.sustain, 0, LevelOne)
          /\ InRange(vs[i].env_amp.release, 1, 5000)

PanicStep ==
    \/ lastOp'.name = "synth_all_notes_off"
    \/ lastOp'.name = "synth_engine_apply_param" /\ lastOp'.msg = PanicMsg /\ ~lastOp'.null

\* C18: after the panic message or synth_all_notes_off, every voice that was
\* not Off is in Release with its amplitude, filter and pitch envelopes in
\* Release, every voice that was Off is still Off, and so no voice is in
\* Attack or Hold.
C18_PanicReleasesEveryVoice ==
    [][PanicStep =>
          \A i \in VoiceIds :
             /\ voices[i].state = "VOICE_OFF" => voices'[i].state = "VOICE_OFF"
             /\ voices[i].state # "VOICE_OFF" =>
                   /\ voices'[i].state = "VOICE_RELEASE"
                   /\ voices'[i].env_amp.state = "ENV_RELEASE"
                   /\ voices'[i].env_filter.state = "ENV_RELEASE"
                   /\ voices'[i].env_pitch.state = "ENV_RELEASE"
             /\ voices'[i].state \notin {"VOICE_ATTACK", "VOICE_HOLD"}]_vars

\* C18's case: panic found two voices sounding and has released both
C18_Witness ==
    /\ lastOp.name = "synth_engine_apply_param"
    /\ lastOp.msg = PanicMsg
    /\ \A i \in VoiceIds : voices[i].state = "VOICE_RELEASE" /\ voices[i].note_off_time = 0

-----------------------------------------------------------------------------
(***************************************************************************)
(* The release of a voice, frame by frame: a note is played and released   *)
(* by synth_note_off or the panic message, with release times from the     *)
(* shortest to the longest of the valid range, and synth_process renders   *)
(* frame after frame.                                                      *)
(***************************************************************************)
\* the number of frames synth_process renders
MaxFrames == 5

\* release times of the valid range, in milliseconds: the shortest, the
\* default, the longest
ReleaseTimes == {1, 300, 5000}

\* one frame of synth_process, as ProcessFrame, within MaxFrames
RenderFrame ==
    /\ synth.sample_counter < MaxFrames
    /\ voices' = synth_process_voices(synth, voices)
    /\ synth' = [synth EXCEPT !.sample_counter = @ + 1]

ReleaseInit == EInit /\ QParked /\ DParked /\ SParked /\ AParked /\ WParked

RIdle == UNCHANGED <<lastOp, opCount>> /\ EIdle

ReleaseNext ==
    \/ \E t \in ReleaseTimes :
          ApplyParam([id |-> "PARAM_ENV_AMP_RELEASE", value |-> t]) /\ RIdle
    \/ \E velocity \in Velocities : NoteOn(60, velocity) /\ RIdle
    \/ NoteOff(60) /\ RIdle
    \/ ApplyParam(PanicMsg) /\ RIdle
    \/ RenderFrame /\ RIdle

ReleaseSpec == ReleaseInit /\ [][ReleaseNext]_vars

\* C19: a released voice goes Off after finitely many frames of process.  A
\* frame changes nothing of a voice but its envelopes, so a voice in Release
\* whose amplitude envelope a frame leaves exactly as it is stays in Release
\* however many frames follow: if released voices always go Off, no voice is
\* ever in Release with such an envelope.
C19_ReleasedVoiceGoesOff ==
    \A i \in VoiceIds :
       voices[i].state = "VOICE_RELEASE" =>
          envelope_process(voices[i].env_amp, synth.sample_rate) # voices[i].env_amp

-----------------------------------------------------------------------------
(***************************************************************************)
(* The three threads of synth_complete.c around the two queues.  The MIDI  *)
(* thread decodes a packet and pushes its events; the interface thread     *)
(* enqueues parameter messages and takes and gives back audio_mutex; the   *)
(* audio thread runs audio_callback: it drains the parameter queue, drains *)
(* the event queue, takes audio_mutex, renders the block frame by frame    *)
(* and gives the mutex back.  A queue is the sequence of everything pushed *)
(* (params, events) with the number of messages taken out of it (applied,  *)
(* handled).  The arpeggiator stays disabled, as it starts: notes go to    *)
(* synth_note_on and synth_note_off and arp_process does nothing.          *)
(***************************************************************************)
\* the number of parameter messages the interface enqueues
MaxParams == 2

\* the largest frameCount of a callback
MaxBlock == 2

\* the packets of the MIDI thread: a note-on and its velocity-0 note-on in
\* running status; a stray data byte, a velocity-0 note-on, a program change;
\* a real-time byte and a data byte, a note-on on channel 1, a cut note-off;
\* a pitch bend and a note-on
AudioFeeds ==
    {<<144, 60, 100, 60, 0>>, <<60, 144, 60, 0, 192, 5>>,
     <<248, 0, 145, 61, 100, 129, 61>>, <<224, 0, 96, 144, 61, 100>>}

\* the messages of the interface thread
AudioMsgs == {PanicMsg, [id |-> "PARAM_FX_DELAY_MIX", value |-> 2]}

\* the identifiers apply_param_change handles itself
FxParams ==
    {"PARAM_FX_DISTORTION_ENABLED", "PARAM_FX_DISTORTION_DRIVE", "PARAM_FX_DISTORTION_MIX",
     "PARAM_FX_DELAY_ENABLED", "PARAM_FX_DELAY_TIME", "PARAM_FX_DELAY_FEEDBACK",
     "PARAM_FX_DELAY_MIX", "PARAM_FX_REVERB_ENABLED", "PARAM_FX_REVERB_SIZE",
     "PARAM_FX_REVERB_DAMPING", "PARAM_FX_REVERB_MIX"}

\* apply_param_change: <<engine, voices>>; the effects are not part of the
\* engine
apply_param_change(s, vs, change) ==
    IF change = NullMsg \/ change.id \in FxParams
    THEN <<s, vs>>
    ELSE LET r == synth_engine_apply_param(s, vs, change) IN <<r[1], r[2]>>

\* (float)event->data2 / 127.0f in level units: positive whenever data2 is
MidiVelocity(data2) == (data2 * LevelOne + 126) \div 127

dispatch_note_on(s, vs, note, velocity) ==
    synth_note_on(s, vs, note, IF velocity > 0 THEN velocity ELSE LevelOne)

dispatch_note_off(s, vs, note) == synth_note_off(s, vs, note)

\* handle_midi_event: the voices after the event
handle_midi_event(s, vs, event) ==
    CASE event.type = "MIDI_EVENT_NOTE_ON" ->
            LET velocity == MidiVelocity(event.data2)
            IN IF velocity <= 0
               THEN dispatch_note_off(s, vs, event.data1)
               ELSE dispatch_note_on(s, vs, event.data1, velocity)
      [] event.type = "MIDI_EVENT_NOTE_OFF" -> dispatch_note_off(s, vs, event.data1)
      [] event.type = "MIDI_EVENT_PITCH_BEND" ->
            LET value == event.data2 * 128 + event.data1
            IN synth_pitch_bend(vs, ((value - 8192) * LevelOne) \div 8192)
      [] OTHER -> vs

\* the mutant: a drain loop may end while its queue still holds messages
DrainDone_early(taken, pushed) == TRUE

\* param_queue_drain and midi_queue_drain end when a dequeue finds the queue
\* empty
DrainDone(taken, pushed) == taken = Len(pushed)

AInit ==
    /\ packet \in AudioFeeds
    /\ pos = 0
    /\ running_status = 0
    /\ mpc = "call"
    /\ events = <<>>
    /\ eventAt = <<>>
    /\ EInit
    /\ params = <<>>
    /\ applied = 0
    /\ handled = 0
    /\ apc = "idle"
    /\ frames = 0
    /\ mutex = "free"
    /\ before = [params |-> 0, events |-> 0]
    /\ writers = [params |-> {}, events |-> {}]
    /\ mutators = {}

AudioInit == AInit /\ QParked /\ SParked /\ WParked

AIdle == UNCHANGED <<qvars, svars, wvars, lastOp, opCount, writers, mutators>>

MidiStep == UNCHANGED <<evars, avars>> /\ UNCHANGED <<qvars, svars, wvars>>

UiStep == UNCHANGED <<synth, voices, dvars>> /\ AIdle

\* the interface thread: param_queue_enqueue
UiEnqueue(msg) ==
    /\ Len(params) < MaxParams
    /\ params' = Append(params, msg)
    /\ UNCHANGED <<applied, handled, apc, frames, mutex, before>>

\* the interface thread: audio_state_lock and audio_state_unlock around its
\* changes of the shared state
UiLock ==
    /\ mutex = "free"
    /\ mutex' = "ui"
    /\ UNCHANGED <<params, applied, handled, apc, frames, before>>

UiUnlock ==
    /\ mutex = "ui"
    /\ mutex' = "free"
    /\ UNCHANGED <<params, applied, handled, apc, frames, before>>

\* audio_callback is called for a block of frameCount frames
CallbackBegin(frameCount) ==
    /\ apc = "idle"
    /\ synth.sample_counter + frameCount <= MaxTime
    /\ apc' = "params"
    /\ frames' = frameCount
    /\ before' = [params |-> Len(params), events |-> Len(events)]
    /\ UNCHANGED <<synth, voices, dvars, params, applied, handled, mutex>>

\* param_queue_drain(apply_param_change): one message
ApplyNext ==
    /\ apc = "params"
    /\ applied < Len(params)
    /\ LET r == apply_param_change(synth, voices, params[applied + 1])
       IN synth' = r[1] /\ voices' = r[2]
    /\ applied' = applied + 1
    /\ UNCHANGED <<dvars, params, handled, apc, frames, mutex, before>>

\* ... its loop ends
ParamsDrained ==
    /\ apc = "params"
    /\ DrainDone(applied, params)
    /\ apc' = "events"
    /\ UNCHANGED <<synth, voices, dvars, params, applied, handled, frames, mutex, before>>

\* midi_queue_drain(handle_midi_event): one event
HandleNext ==
    /\ apc = "events"
    /\ handled < Len(events)
    /\ voices' = handle_midi_event(synth, voices, events[handled + 1])
    /\ handled' = handled + 1
    /\ UNCHANGED <<synth, dvars, params, applied, apc, frames, mutex, before>>

\* ... its loop ends
EventsDrained ==
    /\ apc = "events"
    /\ DrainDone(handled, events)
    /\ apc' = "lock"
    /\ UNCHANGED <<synth, voices, dvars, params, applied, handled, frames, mutex, before>>

\* audio_state_lock(): ma_mutex_lock returns when the mutex is free
CallbackLock ==
    /\ apc = "lock"
    /\ mutex = "free"
    /\ mutex' = "audio"
    /\ apc' = "render"
    /\ UNCHANGED <<synth, voices, dvars, params, applied, handled, frames, before>>

\* one turn of the frame loop: synth_process(&g_app.synth, ..., 1)
CallbackRender ==
    /\ apc = "render"
    /\ frames > 0
    /\ ProcessFrame
    /\ frames' = frames - 1
    /\ UNCHANGED <<dvars, params, applied, handled, apc, mutex, before>>

\* audio_state_unlock() and return
CallbackEnd ==
    /\ apc = "render"
    /\ frames = 0
    /\ mutex' = "free"
    /\ apc' = "idle"
    /\ UNCHANGED <<synth, voices, dvars, params, applied, handled, frames, before>>

AudioNext ==
    \/ ParseCall /\ MidiStep
    \/ ParseEnd /\ MidiStep
    \/ ParseStatus /\ MidiStep
    \/ ParseSkipData /\ MidiStep
    \/ ParseOneData /\ MidiStep
    \/ ParseTwoData /\ MidiStep
    \/ ParseTruncated /\ MidiStep
    \/ ParseUnsupported /\ MidiStep
    \/ \E msg \in AudioMsgs : UiEnqueue(msg) /\ UiStep
    \/ UiLock /\ UiStep
    \/ UiUnlock /\ UiStep
    \/ \E frameCount \in 1 .. MaxBlock : CallbackBegin(frameCount) /\ AIdle
    \/ ApplyNext /\ AIdle
    \/ ParamsDrained /\ AIdle
    \/ HandleNext /\ AIdle
    \/ EventsDrained /\ AIdle
    \/ CallbackLock /\ AIdle
    \/ CallbackRender /\ AIdle
    \/ CallbackEnd /\ AIdle

AudioSpec == AudioInit /\ [][AudioNext]_vars

\* the decoder hands a note-on message with velocity 0 to midi_handle_message
VelocityZeroNoteOn ==
    /\ mpc = "loop"
    /\ pos' = pos + 2
    /\ StatusType(running_status) = 144
    /\ ByteAt(pos + 1) = 0

\* the audio thread handles an event that is a note-off or has velocity 0
HandlesNoteOff ==
    /\ handled' = handled + 1
    /\ \/ events[handled + 1].type = "MIDI_EVENT_NOTE_OFF"
       \/ events[handled + 1].type = "MIDI_EVENT_NOTE_ON" /\ events[handled + 1].data2 = 0

\* C11: no event the decoder has pushed is a note-on with data2 = 0; a
\* note-on message with velocity 0 is pushed as one note-off event with the
\* message's channel and note; and when handle_midi_event handles such an
\* event no voice is started: every voice in Attack afterwards was in Attack
\* before and is as it was.
C11_VelocityZeroIsNoteOff ==
    /\ [](\A k \in 1 .. Len(events) :
             events[k].type = "MIDI_EVENT_NOTE_ON" => events[k].data2 # 0)
    /\ [][VelocityZeroNoteOn =>
             events' = Append(events, MidiEvent("MIDI_EVENT_NOTE_OFF", Channel(running_status),
                                                ByteAt(pos), 0))]_vars
    /\ [][HandlesNoteOff =>
             \A i \in VoiceIds :
                voices'[i].state = "VOICE_ATTACK" => voices'[i] = voices[i]]_vars

\* C11's case: the packet 90 3C 64 3C 00 gave a note-on and a note-off of
\* note 60, and the audio thread has handled both: the voice started by the
\* first is released and the other has not been started
C11_Witness ==
    /\ packet = <<144, 60, 100, 60, 0>>
    /\ events = <<MidiEvent("MIDI_EVENT_NOTE_ON", 0, 60, 100),
                  MidiEvent("MIDI_EVENT_NOTE_OFF", 0, 60, 0)>>
    /\ handled = 2
    /\ voices[0].state = "VOICE_RELEASE"
    /\ voices[1].state = "VOICE_OFF"

\* C17: while audio_callback dispatches events, every parameter message that
\* was in the queue when the callback began has been applied; and while it
\* waits to render and renders the frames of the block, so has every event
\* that was in the event queue when the callback began.
C17_DrainedBeforeRender ==
    /\ apc \in {"events", "lock", "render"} => applied >= before.params
    /\ apc \in {"lock", "render"} => handled >= before.events

\* C17's case: a callback found two parameter messages and two events in the
\* queues, has applied and dispatched them and has rendered a frame
C17_Witness ==
    /\ apc = "render"
    /\ synth.sample_counter = 1
    /\ before.params = 2
    /\ before.events = 2
    /\ applied = 2
    /\ handled = 2

\* C20: the audio callback never holds a mutex, and is never waiting for one
\* that the interface thread holds.
C20_CallbackTakesNoMutex ==
    /\ mutex # "audio"
    /\ ~(apc = "lock" /\ mutex = "ui")

-----------------------------------------------------------------------------
\* C28: every event the decoder has pushed has data1 and data2 in 0..127,
\* whatever the bytes of the feed.
C28_EventDataBelow128 ==
    \A k \in 1 .. Len(events) : events[k].data1 \in 0 .. 127 /\ events[k].data2 \in 0 .. 127

\* the data bytes among the first n bytes of the feed
DataBytesIn(n) == Cardinality({q \in 1 .. n : ~IsStatusByte(packet[q])})

\* C29: midi_parse_packet never has its index beyond the length of the feed
\* and has pushed at most one event per data byte it has gone over; every
\* turn of its loop either returns or moves the index forward, by no more
\* bytes than the feed still has (so the loop ends after at most length
\* turns and no byte at or beyond length is read); and a call that has
\* returned has looked at the whole feed or stopped at a cut message.
C29_ParseTerminatesInBounds ==
    /\ [](/\ pos <= Len(packet)
          /\ Len(events) <= DataBytesIn(pos)
          /\ mpc = "done" =>
                \/ pos = Len(packet)
                \/ pos = Len(packet) - 1 /\ ~IsStatusByte(ByteAt(pos)))
    /\ [][mpc = "loop" =>
             \/ mpc' = "done" /\ pos' = pos
             \/ mpc' = "loop" /\ pos' > pos /\ pos' <= Len(packet)]_vars

\* C29's case: a feed of a whole message and a cut one has returned with one
\* event, at the cut message
C29_Witness ==
    /\ mpc = "done"
    /\ packet = <<144, 60, 100, 60>>
    /\ pos = 3
    /\ Len(events) = 1

-----------------------------------------------------------------------------
(***************************************************************************)
(* The engine in its three voice modes (polyphonic, mono, mono with        *)
(* legato), with the last operation recorded.                              *)
(***************************************************************************)
\* the record of an operation of a run of at most MaxOps operations
ModeStep(name, note) ==
    /\ opCount < MaxOps
    /\ opCount' = opCount + 1
    /\ lastOp' = [name |-> name, note |-> note]
    /\ EIdle

ModeNext ==
    \/ \E note \in Notes, velocity \in Velocities :
          NoteOn(note, velocity) /\ ModeStep("synth_note_on", note)
    \/ \E note \in Notes : NoteOff(note) /\ ModeStep("synth_note_off", note)
    \/ ProcessFrame /\ ModeStep("synth_process", 0)
    \/ \E mono, legato \in BOOLEAN : SetVoiceMode(mono, legato) /\ ModeStep("mode", 0)

ModeSpec == EngineInit /\ [][ModeNext]_vars

\* voice_note_on has run on the voice: it is in Attack with its envelopes in
\* Attack, stamped with the engine's time
Retriggered(voice, note, time) ==
    /\ voice.state = "VOICE_ATTACK"
    /\ voice.midi_note = note
    /\ voice.note_on_time = time
    /\ voice.env_amp.state = "ENV_ATTACK"
    /\ voice.env_filter.state = "ENV_ATTACK"
    /\ voice.env_pitch.state = "ENV_ATTACK"

\* C24: a synth_note_on in mono mode leaves every voice but voice 0 as it
\* was; with legato set and voice 0 not Off, voice 0 has the new note and
\* nothing else of it has changed but its target pitch and glide rate (its
\* state, its envelopes and its note_on_time are as before); without legato,
\* or with voice 0 Off, voice 0 is retriggered.
C24_MonoLegatoRepitches ==
    [][(lastOp'.name = "synth_note_on" /\ synth.mono_mode) =>
          /\ \A i \in VoiceIds \ {0} : voices'[i] = voices[i]
          /\ IF synth.legato_mode /\ voices[0].state # "VOICE_OFF"
             THEN /\ voices'[0].midi_note = lastOp'.note
                  /\ voices'[0] = [voices[0] EXCEPT !.midi_note = voices'[0].midi_note,
                                                    !.target_pitch = voices'[0].target_pitch,
                                                    !.glide_rate = voices'[0].glide_rate]
             ELSE Retriggered(voices'[0], lastOp'.note, synth.sample_counter)]_vars

\* C24's case: in mono mode with legato, note 61 was played while voice 0
\* held note 60 with its envelope past its attack: voice 0 has the new note
\* and is where it was
C24_Witness ==
    /\ synth.mono_mode /\ synth.legato_mode
    /\ lastOp.name = "synth_note_on" /\ lastOp.note = 61
    /\ voices[0].midi_note = 61
    /\ voices[0].state = "VOICE_ATTACK"
    /\ voices[0].env_amp.state = "ENV_DECAY"
    /\ voices[0].note_on_time = 0
    /\ synth.sample_counter = 1

\* C27: right after synth_note_on(n, v), in any of the three modes, some
\* voice holds note n and is neither Off nor in Release, with an amplitude
\* envelope that is neither Off nor in Release.
C27_NoteOnLeavesSoundingVoice ==
    [][lastOp'.name = "synth_note_on" =>
          \E i \in VoiceIds :
             /\ voices'[i].midi_note = lastOp'.note
             /\ voices'[i].state \notin {"VOICE_OFF", "VOICE_RELEASE"}
             /\ voices'[i].env_amp.state \notin {"ENV_OFF", "ENV_RELEASE"}]_vars

-----------------------------------------------------------------------------
(***************************************************************************)
(* The polyphonic pool under more notes than it has voices: distinct notes *)
(* are played and none is released, several of them between two frames of  *)
(* synth_process (as when handle_midi_event plays a chord during one       *)
(* drain); the notes are recorded in the order they were played.           *)
(***************************************************************************)
\* two notes more than the pool has voices
StealNotes == 60 .. (60 + MAX_VOICES + 1)

StealInit ==
    /\ synth = synth_init(SampleRate)
    /\ voices = synth_init_voices(synth)
    /\ lastOp = [name |-> "synth_init", order |-> <<>>]
    /\ opCount = 0
    /\ QParked /\ DParked /\ SParked /\ AParked /\ WParked

Played == {lastOp.order[k] : k \in 1 .. Len(lastOp.order)}

StealNext ==
    \/ \E note \in StealNotes \ Played, velocity \in Velocities :
          /\ NoteOn(note, velocity)
          /\ lastOp' = [name |-> "synth_note_on", order |-> Append(lastOp.order, note)]
          /\ UNCHANGED opCount /\ EIdle
    \/ /\ ProcessFrame
       /\ lastOp' = [lastOp EXCEPT !.name = "synth_process"]
       /\ UNCHANGED opCount /\ EIdle

StealSpec == StealInit /\ [][StealNext]_vars

\* the last n notes played
LastPlayed(n) ==
    {lastOp.order[k] : k \in (Len(lastOp.order) - n + 1) .. Len(lastOp.order)}

\* C26: in polyphonic mode with no note_off, once MAX_VOICES or more distinct
\* notes have been played the voices hold exactly the MAX_VOICES notes played
\* last, whether frames were rendered between the note_on calls or not.
C26_PoolHoldsNewestNotes ==
    Len(lastOp.order) >= MAX_VOICES =>
       {voices[i].midi_note : i \in VoiceIds} = LastPlayed(MAX_VOICES)

-----------------------------------------------------------------------------
(***************************************************************************)
(* envelope_process on the envelopes of the voices, for envelopes whose    *)
(* attack, decay and release times are zero or not and whose loop flag is  *)
(* set or not: a note is played, released and played again while           *)
(* synth_process renders.                                                  *)
(***************************************************************************)
\* the times of a stage, in milliseconds: none, and the stage's default
StageTimes(default) == {0, default}

\* the envelopes of every voice get the times and the flag
WithEnvelope(vs, attack, decay, release, loop) ==
    LET set(env) == [env EXCEPT !.attack = attack, !.decay = decay,
                                !.release = release, !.loop = loop]
    IN [i \in VoiceIds |-> [vs[i] EXCEPT !.env_amp = set(@), !.env_filter = set(@),
                                         !.env_pitch = set(@)]]

EnvInit ==
    /\ synth = synth_init(SampleRate)
    /\ \E attack \in StageTimes(10), decay \in StageTimes(100), release \in StageTimes(300),
          loop \in BOOLEAN :
          voices = WithEnvelope(synth_init_voices(synth), attack, decay, release, loop)
    /\ lastOp = NoOp
    /\ opCount = 0
    /\ QParked /\ DParked /\ SParked /\ AParked /\ WParked

EnvNext ==
    \/ \E velocity \in Velocities : NoteOn(60, velocity) /\ RIdle
    \/ NoteOff(60) /\ RIdle
    \/ ProcessFrame /\ RIdle

EnvSpec == EnvInit /\ [][EnvNext]_vars

\* the envelopes of the voices
Envelopes == UNION {{voices[i].env_amp, voices[i].env_filter, voices[i].env_pitch} : i \in VoiceIds}

\* the place of a stage in the order Attack, Decay, Sustain, Release, Off
StageRank(state) ==
    CASE state = "ENV_ATTACK" -> 0
      [] state = "ENV_DECAY" -> 1
      [] state = "ENV_SUSTAIN" -> 2
      [] state = "ENV_RELEASE" -> 3
      [] state = "ENV_OFF" -> 4

\* C25: for every envelope a voice can have, one envelope_process leaves it
\* in its stage or in a later one of Attack, Decay, Sustain, Release, Off,
\* but for Sustain going to Attack, which it does when loop is set and only
\* then; in Off it changes nothing and returns 0; envelope_is_active is false
\* in Off and true elsewhere; and in Attack, Decay or Release with a time of
\* 0 it leaves the stage in that one step, for the next stage.
C25_EnvelopeMovesForward ==
    \A env \in Envelopes :
       LET next == envelope_process(env, synth.sample_rate)
       IN /\ \/ StageRank(next.state) >= StageRank(env.state)
             \/ env.state = "ENV_SUSTAIN" /\ env.loop /\ next.state = "ENV_ATTACK"
          /\ (env.state = "ENV_SUSTAIN" /\ env.loop) => next.state = "ENV_ATTACK"
          /\ env.state = "ENV_OFF" =>
                next = env /\ envelope_process_value(env, synth.sample_rate) = 0
          /\ envelope_is_active(env) <=> env.state # "ENV_OFF"
          /\ (env.state = "ENV_ATTACK" /\ env.attack = 0) => next.state = "ENV_DECAY"
          /\ (env.state = "ENV_DECAY" /\ env.decay = 0) => next.state = "ENV_SUSTAIN"
          /\ (env.state = "ENV_RELEASE" /\ env.release = 0) => next.state = "ENV_OFF"

\* C25's case: an envelope with no decay time and without loop has gone from
\* Attack through Decay to Sustain in two frames, and another voice's, with
\* release time 0, has gone Off
C25_Witness ==
    /\ synth.sample_counter = 2
    /\ voices[0].env_amp.state = "ENV_SUSTAIN"
    /\ voices[0].env_amp.decay = 0 /\ voices[0].env_amp.release = 0
    /\ ~voices[0].env_amp.loop
    /\ voices[1].env_amp.state = "ENV_OFF"
    /\ voices[1].state = "VOICE_OFF" /\ voices[1].midi_note = 60


-----------------------------------------------------------------------------
(***************************************************************************)
(* The threads of src/synth_complete.c around the two queues and the       *)
(* engine.  The interface thread runs key_callback (play_note, stop_note,  *)
(* the escape key), app_apply_tempo and the enqueue helpers; the MIDI      *)
(* thread hands each decoded message to midi_handle_message, which pushes  *)
(* into the event queue; the audio thread runs audio_callback.  writers    *)
(* records which thread enqueued into which queue and mutators which       *)
(* thread called a function that changes the engine.                       *)
(***************************************************************************)
\* the number of events the threads push
MaxEvents == 2

\* the messages the MIDI thread decodes: a note-on, its velocity-0 form and
\* a control change
AppMessages == {<<144, 61, 100>>, <<144, 61, 0>>, <<176, 1, 64>>}

\* the keys of g_keymap that are played, as MIDI notes
AppNotes == {60}

\* the tempos the interface asks for; app_apply_tempo returns on 0
AppTempos == {0, 140}

AppInit ==
    /\ packet = <<>>
    /\ pos = 0
    /\ running_status = 0
    /\ mpc = "done"
    /\ events = <<>>
    /\ eventAt = <<>>
    /\ EInit
    /\ params = <<>>
    /\ applied = 0
    /\ handled = 0
    /\ apc = "idle"
    /\ frames = 0
    /\ mutex = "free"
    /\ before = [params |-> 0, events |-> 0]
    /\ writers = [params |-> {}, events |-> {}]
    /\ mutators = {}
    /\ QParked
    /\ SParked
    /\ WParked

\* a thread has enqueued into a queue
Wrote(queue, thread) == writers' = [writers EXCEPT ![queue] = @ \cup {thread}]

\* a thread has called a function that changes the engine
Called(thread) == mutators' = mutators \cup {thread}

AppIdle == UNCHANGED <<qvars, svars, wvars, lastOp, opCount>>

\* midi_queue_push_event
midi_queue_push_event(evs, thread) ==
    /\ events' = events \o evs
    /\ eventAt' = eventAt \o [k \in 1 .. Len(evs) |-> 0]
    /\ IF evs # <<>> THEN Wrote("events", thread) ELSE UNCHANGED writers
    /\ UNCHANGED <<packet, pos, running_status, mpc>>

\* the MIDI thread: midi_handle_message for one decoded message
MidiMessage(status, data1, data2) ==
    /\ Len(events) < MaxEvents
    /\ midi_queue_push_event(midi_handle_message(status, data1, data2), "midi")
    /\ UNCHANGED <<evars, params, applied, handled, apc, frames, mutex, before, mutators>>

\* the interface thread: play_note, midi_queue_send_note_on(midi_note, 110)
play_note(midi_note) ==
    /\ midi_note >= 0 /\ midi_note <= 127
    /\ Len(events) < MaxEvents
    /\ midi_queue_push_event(<<MidiEvent("MIDI_EVENT_NOTE_ON", 0, midi_note, 110)>>, "ui")
    /\ UNCHANGED <<evars, params, applied, handled, apc, frames, mutex, before, mutators>>

\* the interface thread: stop_note, midi_queue_send_note_off(midi_note)
stop_note(midi_note) ==
    /\ midi_note >= 0 /\ midi_note <= 127
    /\ Len(events) < MaxEvents
    /\ midi_queue_push_event(<<MidiEvent("MIDI_EVENT_NOTE_OFF", 0, midi_note, 0)>>, "ui")
    /\ UNCHANGED <<evars, params, applied, handled, apc, frames, mutex, before, mutators>>

\* the interface thread: key_callback for the escape key
KeyEscape ==
    /\ voices' = synth_all_notes_off(synth, voices)
    /\ Called("ui")
    /\ UNCHANGED <<synth, lastOp, opCount, dvars>>
    /\ UNCHANGED <<params, applied, handled, apc, frames, mutex, before, writers>>

\* the interface thread: app_apply_tempo
app_apply_tempo(bpm) ==
    /\ bpm > 0
    /\ Len(params) < MaxParams
    /\ synth' = synth_set_tempo(synth, bpm)
    /\ Called("ui")
    /\ params' = Append(params, [id |-> "PARAM_TEMPO", value |-> bpm])
    /\ Wrote("params", "ui")
    /\ UNCHANGED <<voices, lastOp, opCount, dvars>>
    /\ UNCHANGED <<applied, handled, apc, frames, mutex, before>>

\* the interface thread: an enqueue helper
AppEnqueue(msg) ==
    /\ UiEnqueue(msg)
    /\ Wrote("params", "ui")
    /\ UNCHANGED <<evars, dvars, mutators>>

\* a step of audio_callback that changes the engine
AppAudioStep == Called("audio") /\ UNCHANGED writers /\ AppIdle

\* a step of audio_callback that does not
AppAudioIdle == UNCHANGED <<writers, mutators>> /\ AppIdle

AppNext ==
    \/ \E m \in AppMessages : MidiMessage(m[1], m[2], m[3]) /\ UNCHANGED <<qvars, svars, wvars>>
    \/ \E midi_note \in AppNotes : play_note(midi_note) /\ UNCHANGED <<qvars, svars, wvars>>
    \/ \E midi_note \in AppNotes : stop_note(midi_note) /\ UNCHANGED <<qvars, svars, wvars>>
    \/ KeyEscape /\ UNCHANGED <<qvars, svars, wvars>>
    \/ \E bpm \in AppTempos : app_apply_tempo(bpm) /\ UNCHANGED <<qvars, svars, wvars>>
    \/ \E msg \in AudioMsgs : AppEnqueue(msg) /\ UNCHANGED <<qvars, svars, wvars>>
    \/ \E frameCount \in 1 .. MaxBlock : CallbackBegin(frameCount) /\ AppAudioIdle
    \/ ApplyNext /\ AppAudioStep
    \/ ParamsDrained /\ AppAudioIdle
    \/ HandleNext /\ AppAudioStep
    \/ EventsDrained /\ AppAudioIdle
    \/ CallbackLock /\ AppAudioIdle
    \/ CallbackRender /\ AppAudioStep
    \/ CallbackEnd /\ AppAudioIdle

AppSpec == AppInit /\ [][AppNext]_vars

\* C21: each queue has at most one thread that enqueues into it, and the
\* audio callback never enqueues into the parameter queue.
C21_OneWriterPerQueue ==
    /\ \A queue \in {"params", "events"} : Cardinality(writers[queue]) <= 1
    /\ "audio" \notin writers["params"]

\* C22: the engine is changed by the audio callback only: no other thread
\* calls synth_note_on, synth_note_off, synth_all_notes_off or
\* synth_set_tempo.
C22_OnlyCallbackChangesEngine == mutators \subseteq {"audio"}

-----------------------------------------------------------------------------
(***************************************************************************)
(* The length of a drain call, under QueueSpec, where the producer's steps *)
(* interleave with the steps of the consumer's loop.                       *)
(***************************************************************************)
\* C30: one call of param_queue_drain hands at most as many messages to its
\* handler as the queue can hold, whatever the producer enqueues while the
\* call runs.
C30_DrainDeliversAtMostCapacity == drain.count <= PARAM_QUEUE_SIZE

-----------------------------------------------------------------------------
(***************************************************************************)
(* The diagnostics of a full queue.  param_queue_enqueue prints a line     *)
(* whenever PaUtil_WriteRingBuffer writes nothing; midi_queue_push_event   *)
(* prints one unless its static flag warned is set, and sets it.  Each     *)
(* call is one step here: what is looked at is the lines, not the cursors. *)
(* since counts, for each queue, the enqueues that failed and the lines    *)
(* printed after the queue was last drained.                               *)
(***************************************************************************)
\* the failed enqueues between two drains of a queue
MaxDrops == 2

MIDI_QUEUE_SIZE == Pow2(QueueBits)

Queues == {"params", "events"}

NoDrops == [failed |-> 0, lines |-> 0]

DropInit ==
    /\ rings = [queue \in Queues |->
                   IF queue = "params"
                   THEN PaUtil_InitializeRingBuffer(PARAM_QUEUE_SIZE)
                   ELSE PaUtil_InitializeRingBuffer(MIDI_QUEUE_SIZE)]
    /\ warned = 0
    /\ since = [queue \in Queues |-> NoDrops]
    /\ QParked /\ EParked /\ DParked /\ SParked /\ AParked

WIdle == UNCHANGED <<qvars, evars, dvars, svars, avars>>

\* PaUtil_WriteRingBuffer(&ring, msg, 1): <<the ring, the elements written>>
PaUtil_WriteRingBuffer(r) ==
    IF PaUtil_GetRingBufferWriteAvailable(r) = 0
    THEN <<r, 0>>
    ELSE <<PaUtil_AdvanceRingBufferWriteIndex(r, 1), 1>>

\* a failed enqueue that printed lines lines
Dropped(queue, lines) ==
    since' = [since EXCEPT ![queue] = [failed |-> @.failed + 1, lines |-> @.lines + lines]]

\* param_queue_enqueue with a message
Drop_param_queue_enqueue ==
    LET w == PaUtil_WriteRingBuffer(rings["params"])
    IN /\ w[2] = 0 => since["params"].failed < MaxDrops
       /\ rings' = [rings EXCEPT !["params"] = w[1]]
       /\ IF w[2] = 0 THEN Dropped("params", 1) ELSE UNCHANGED since
       /\ UNCHANGED warned

\* midi_queue_push_event with an event
Drop_midi_queue_push_event ==
    LET w == PaUtil_WriteRingBuffer(rings["events"])
    IN /\ w[2] = 0 => since["events"].failed < MaxDrops
       /\ rings' = [rings EXCEPT !["events"] = w[1]]
       /\ IF w[2] = 0
          THEN /\ Dropped("events", IF warned = 0 THEN 1 ELSE 0)
               /\ warned' = 1
          ELSE UNCHANGED <<since, warned>>

\* param_queue_drain and midi_queue_drain with a handler: the loop runs until
\* the ring is empty
Drop_drain(queue) ==
    /\ rings' = [rings EXCEPT ![queue] =
                    PaUtil_AdvanceRingBufferReadIndex(@, PaUtil_GetRingBufferReadAvailable(@))]
    /\ since' = [since EXCEPT ![queue] = NoDrops]
    /\ UNCHANGED warned

DropNext ==
    \/ Drop_param_queue_enqueue /\ WIdle
    \/ Drop_midi_queue_push_event /\ WIdle
    \/ \E queue \in Queues : Drop_drain(queue) /\ WIdle

DropSpec == DropInit /\ [][DropNext]_vars

\* C23: between two drains of a queue the dropped-message diagnostic is
\* printed once if an enqueue has failed, however many have, and not at all
\* if none has; so a first failure after a drain prints it again.
C23_OneLinePerEpisode ==
    \A queue \in Queues : since[queue].lines = IF since[queue].failed > 0 THEN 1 ELSE 0

=============================================================================
